---- MODULE Spec2Model ----
(***************************************************************************)
(* Laser harp: the sensor loop (debounce and retrigger) and the audio      *)
(* mixer task of the Harp sketches, sharing a voice's isPlaying and        *)
(* current_position without a lock.                                        *)
(*                                                                         *)
(* The model follows one channel i.  The body of the sensor loop           *)
(* (HarpSilent.ino 190-207) reads and writes index i of pendingStates,     *)
(* previousStates, lastChangeTime and notes only, and the body of the      *)
(* mixer's voice loop (HarpSilent.ino 421-429) reads and writes index j    *)
(* of notes only, so the variables below are the entries of channel i.     *)
(*                                                                         *)
(* notes[] is declared volatile: every access in the source is a memory    *)
(* access of its own, and each is one step of the model.  The mixer task   *)
(* is pinned to core 1; the core of the Arduino loop task is a build       *)
(* option, so the two contexts may run in parallel and every interleaving  *)
(* of their memory accesses is a behaviour.                                *)
(*                                                                         *)
(* A second view follows all voices at once: the array notes[], the        *)
(* background voice silentNote of HarpSilent.ino, the dial (mode flag),     *)
(* initializeAudioSystem and shutdownAudioSystem.  There a frame of the    *)
(* mixer is two steps (the background voice, then the musical voices) and  *)
(* a pass of the sensor loop is one step; the accesses inside them are     *)
(* the subject of the one-channel view.                                    *)
(***************************************************************************)
EXTENDS Integers, Sequences, FiniteSets, TLC

\* ---- program constants ----
WAV_HEADER_SIZE == 44
TRIGGER_THRESHOLD == 3200
DEBOUNCE_DELAY == 20
NUM_SENSORS == 5

\* ---- bounds of the model ----
\* number of data bytes of the loaded note (file size minus the header)
NoteLen == 3
\* frames per mix block (MIXER_BUFFER_SAMPLES is 128 in the source)
BlockFrames == 2
\* millis() stops advancing here
MaxTime == 63
\* the ghost counters of confirmed edges and triggers saturate here
MaxCount == 3

\* number of data bytes of silent.wav
SilentLen == 2
\* the beams 1..MaxBeam are the ones that get broken while the dial is turned
MaxBeam == 2

\* notes[i].size as loadNoteToPsram leaves it: the size of the whole file
\* the loader tasks told apart: the web server creates one per accepted request
LoaderTasks == {1, 2}

\* names of scale folders on the card; "CMajor" is loaded by setup()
ScaleNames == {"CMajor", "Blues"}

NoteSize == WAV_HEADER_SIZE + NoteLen

\* notes[i].buffer[k]: the bytes of the file, unsigned 8 bit
SampleAt(k) == (k * 37) % 256

\* silentNote.size
SilentSize == WAV_HEADER_SIZE + SilentLen

Voices == 1..NUM_SENSORS

\* notes[j].buffer[k] in the view of all voices: every voice begins with full
\* scale +127 (centred), goes on with +100 (voice 3 with -100) and then with
\* full scale -128
Buffer(j, k) ==
    LET d == (k - WAV_HEADER_SIZE) % 3
    IN  IF d = 0 THEN 255
        ELSE IF d = 1 THEN (IF j = 3 THEN 28 ELSE 228) ELSE 0

\* silentNote.buffer[k]: silent.wav is not part of the repository; full scale either way
SilentBuffer(k) == IF (k - WAV_HEADER_SIZE) % 2 = 0 THEN 255 ELSE 0

\* enum SystemState
SystemStates == {"SYSTEM_OFF", "PUMP_ONLY", "FULL_SYSTEM"}

\* the sets of beams that one pass of the loop finds newly broken while the mixer
\* is followed over all voices
Chords == {{}, {1}, {1, 2}, {3}, {4, 5}, Voices}

\* shutdownAudioSystem leaves the flag set
StoppedStillPlaying == [isPlaying |-> TRUE, current_position |-> 0]

\* an AudioNote that is not playing, as setup() and shutdownAudioSystem leave it
Stopped == [isPlaying |-> FALSE, current_position |-> 0]

\* what adc1_get_raw can return on either side of the threshold
Readings == {TRIGGER_THRESHOLD - 1, TRIGGER_THRESHOLD}

VARIABLES
    \* sensor loop, channel i
    now,              \* millis()
    pendingStates,
    previousStates,
    lastChangeTime,
    looppc,           \* "poll", "check", "T1", "T2"
    \* voice i
    isPlaying,
    current_position,
    \* audioMixerTask
    mixpc,            \* "frame", "chk", "rd", "ld", "st", "deact", "write"
    mixI,             \* the frame index i of the for loop
    mixed_sample,
    posReg,           \* the value loaded by current_position++
    i2s_output_buffer,
    \* history of the run (written by no code, read by the properties)
    lastCmp,          \* the most recent polled comparison, FALSE before the first
    runStart,         \* millis() of the poll that began the current run of equal comparisons
    flips,            \* how often the polled comparison changed
    everHeld,         \* some debounce check saw a comparison held for more than DEBOUNCE_DELAY
    heldRun,          \* a debounce check saw the current run held for more than DEBOUNCE_DELAY
    edges,            \* confirmed state changes
    trigs,            \* triggers (writes of isPlaying = true by the loop)
    lastEdgeTime,     \* millis() at the latest confirmed change, -1 before the first
    runEdges,         \* confirmed changes since the current run of equal comparisons began (0, 1, 2 = more)
    lastReadIdx,      \* index of the latest buffer read of the mixer, -1 before the first
    frameRead,        \* index the mixer read in the current (or just finished) frame, -1 if none
    firstAfterReset,  \* -2 no cursor reset since the latest broken edge, -1 reset and nothing read
                      \* since, else the index the mixer read first after the reset
    cleanTrig,        \* the latest broken edge was confirmed with the mixer between frames and
                      \* the mixer took no step during the trigger's two writes
    retrig,           \* what the latest cursor reset found: "none", "idle", "start", "mid", "end"
    resetFrom,        \* the cursor value the latest reset replaced
    outFrames,        \* the words of the first frames the mixer finished since the latest trigger
    outReads,         \* for each of those frames the index the mixer read in it, -1 if none
    \* all voices, the dial and the audio path
    currentSystemState,
    previousSystemState,
    audioSystemInitialized,
    audioMixerTaskHandle, \* TRUE: not NULL
    i2sDriver,        \* "none", "running", "stopped"
    notes,            \* voice -> [isPlaying, current_position]
    silentNote,
    hasSilentNote,    \* the sketch has the background voice (HarpSilent.ino) or not
    rawSum,           \* history: mixed_sample of the latest frame before the clamp
    i2sLog,           \* history: driver calls since the latest install, repeats dropped
    laserPin,         \* LASER_CONTROL_PIN, "LOW" or "HIGH"
    pumpPin,          \* CONSTANT_HIGH_PIN (the pump), "LOW" or "HIGH"
    mixerTasks,       \* how many audioMixerTask tasks exist
    bytes_written,    \* what the latest i2s_write reported, in 16-bit words
    \* the sketch with the scale loader (part_002, lines 885-2030)
    noteBuffer,       \* voice -> "NULL" or "loaded": notes[j].buffer
    noteSize,         \* voice -> notes[j].size
    loaderpc,         \* loader task -> where it stands in loadScaleTask: "none" (no such
                      \* task), "check", "set", "find", "unload", "open", "read", "panic"
    loaderI,          \* loader task -> the index i of loadScale's loading loop
    fault,            \* history: the mixer read through a NULL buffer
    scaleName,        \* loader task -> the scale it was asked to load
    scaleLoadInProgress,
    currentScaleName,
    scaleLoadStatus,  \* "" (as declared), "scanning", "missing", "unloading", "loading",
                      \* "loaded", "failed": which message loadScale stored last
    fallback,         \* history: initialisation failed and every dial read since was FULL_SYSTEM
    \* the sketches with the web server (part_002)
    dialLeft,         \* level of DIAL_LEFT_PIN
    dialRight,        \* level of DIAL_RIGHT_PIN
    webPumpState,
    webLaserState,
    webGain,
    stringThresholds, \* string index 0..4 -> threshold
    webpc,            \* webServerTask: "none", "accept" (in server.accept), "request" (reading
                      \* the header of a connected client)
    controlsEnabled,
    header,           \* the request of the connected client, NoRequest while there is none
    \* the queue-based players (part_000, part_003)
    noteQueue,        \* the note indices waiting in the queue
    sentWhilePlaying, \* history: for each queued index, was its note playing when it was sent
    playerpc,         \* audioPlayerTask: "none", "receive", "chunk", "write", "zero"
    noteIndexToPlay,
    bytes_sent,
    bytes_to_write,
    sunk,             \* history: bytes the sink accepted of the note being played
    exact,            \* history: every write of the note began at the first byte the sink lacks
    converting        \* the sketch widens each 8-bit sample to four bytes (part_003) or not (part_000)

sensorVars == <<pendingStates, previousStates, lastChangeTime>>
voiceVars  == <<isPlaying, current_position>>
mixerVars  == <<mixpc, mixI, mixed_sample, posReg, i2s_output_buffer>>
sensorHist == <<lastCmp, runStart, flips, everHeld, heldRun, edges, trigs, lastEdgeTime, runEdges>>
mixHist    == <<lastReadIdx, frameRead, firstAfterReset, cleanTrig, retrig, resetFrom>>
pinVars    == <<laserPin, pumpPin>>
scaleVars  == <<noteBuffer, noteSize, loaderpc, loaderI, fault, scaleName, scaleLoadInProgress,
                currentScaleName, scaleLoadStatus>>
webVars    == <<dialLeft, dialRight, webPumpState, webLaserState, webGain, stringThresholds,
                webpc, controlsEnabled, header>>
playerVars == <<noteQueue, sentWhilePlaying, playerpc, noteIndexToPlay, bytes_sent,
                bytes_to_write, sunk, exact, converting>>
\* what the web server task of the first sketch of part_002 leaves alone
nonWebVars == <<currentSystemState, previousSystemState, audioSystemInitialized,
                audioMixerTaskHandle, i2sDriver, notes, silentNote, hasSilentNote, fallback,
                playerVars, rawSum, i2sLog, pinVars, mixerTasks, bytes_written, scaleVars>>
\* what the queue and the player task leave alone, with and without notes and
\* bytes_written
boardVarsOfPlayer == <<currentSystemState, previousSystemState, audioSystemInitialized,
                       audioMixerTaskHandle, i2sDriver, silentNote, hasSilentNote, fallback,
                       webVars, rawSum, i2sLog, pinVars, mixerTasks, scaleVars>>
nonWebPlayerVars == <<boardVarsOfPlayer, notes, bytes_written>>
systemVars == <<currentSystemState, previousSystemState, audioSystemInitialized,
                audioMixerTaskHandle, i2sDriver, notes, silentNote, hasSilentNote, fallback, webVars, playerVars, rawSum, i2sLog,
                pinVars, mixerTasks, bytes_written, scaleVars>>
\* what only the one-channel view uses
channelVars == <<now, sensorVars, voiceVars, posReg, sensorHist, mixHist, outFrames, outReads>>
vars == <<now, sensorVars, looppc, voiceVars, mixerVars, sensorHist, mixHist, outFrames, outReads,
          systemVars>>

Sat(n) == IF n >= MaxCount THEN MaxCount ELSE n + 1

\* ---- state after setup() ----
\* channel i after setup()
ChannelInit ==
    /\ now = 0
    /\ pendingStates = FALSE
    /\ previousStates = FALSE
    /\ lastChangeTime = 0
    /\ isPlaying = FALSE
    /\ current_position = 0
    /\ mixI = 0
    /\ mixed_sample = 0
    /\ posReg = 0
    /\ i2s_output_buffer = << >>
    /\ lastCmp = FALSE
    /\ runStart = 0
    /\ flips = 0
    /\ everHeld = FALSE
    /\ heldRun = FALSE
    /\ edges = 0
    /\ trigs = 0
    /\ lastEdgeTime = -1
    /\ runEdges = 0
    /\ lastReadIdx = -1
    /\ frameRead = -1
    /\ firstAfterReset = -2
    /\ cleanTrig = FALSE
    /\ retrig = "none"
    /\ resetFrom = 0
    /\ outFrames = << >>
    /\ outReads = << >>

\* every note loaded by setup(), no scale load under way
\* no loader task exists (part_002, lines 913-914: the globals as declared)
NoLoader ==
    /\ loaderpc = [t \in LoaderTasks |-> "none"]
    /\ loaderI = [t \in LoaderTasks |-> 0]
    /\ scaleName = [t \in LoaderTasks |-> "CMajor"]
    /\ scaleLoadInProgress = FALSE
    /\ currentScaleName = "CMajor"
    /\ scaleLoadStatus = ""
    /\ fault = FALSE

\* the sketch has no web server task: the web globals as declared and never written
NoWebServer ==
    /\ dialLeft = "HIGH" /\ dialRight = "LOW"
    /\ webPumpState = FALSE /\ webLaserState = FALSE
    /\ webGain = 0
    /\ stringThresholds = [i \in 0..(NUM_SENSORS - 1) |-> TRIGGER_THRESHOLD]
    /\ webpc = "none"
    /\ controlsEnabled = FALSE
    /\ header = [path |-> "", index |-> 0, value |-> << >>]

\* the sketch has no note queue and no player task
NoPlayer ==
    /\ noteQueue = << >> /\ sentWhilePlaying = << >>
    /\ playerpc = "none"
    /\ noteIndexToPlay = 0
    /\ bytes_sent = 0 /\ bytes_to_write = 0
    /\ sunk = 0 /\ exact = TRUE
    /\ converting = FALSE

NotesLoaded ==
    /\ noteBuffer = [j \in Voices |-> "loaded"]
    /\ noteSize = [j \in Voices |-> NoteSize]
    /\ NoLoader
    /\ fallback = FALSE

\* the audio path as initializeAudioSystem leaves it with the dial on FULL_SYSTEM
AudioRunning(silent) ==
    /\ currentSystemState = "FULL_SYSTEM"
    /\ previousSystemState = "FULL_SYSTEM"
    /\ audioSystemInitialized = TRUE
    /\ audioMixerTaskHandle = TRUE
    /\ i2sDriver = "running"
    /\ notes = [j \in Voices |-> Stopped]
    /\ hasSilentNote = silent
    /\ silentNote = IF silent THEN [isPlaying |-> TRUE, current_position |-> WAV_HEADER_SIZE]
                              ELSE Stopped
    /\ rawSum = 0
    /\ i2sLog = <<"install", "flush">>
    /\ laserPin = "HIGH"
    /\ pumpPin = "HIGH"
    /\ mixerTasks = 1
    /\ bytes_written = 0

\* lines 218-232: the two dial pins decoded
ReadDialState(stateLeft, stateRight) ==
    IF stateLeft = "HIGH" /\ stateRight = "LOW" THEN "SYSTEM_OFF"
    ELSE IF stateLeft = "LOW" /\ stateRight = "LOW" THEN "PUMP_ONLY"
    ELSE IF stateLeft = "LOW" /\ stateRight = "HIGH" THEN "FULL_SYSTEM"
    ELSE "SYSTEM_OFF"

PinLevels == {"LOW", "HIGH"}

\* HarpSilent.ino after setup() (lines 108-173): pins low, notes loaded and
\* stopped, no audio path, the mode read from the dial and no call of
\* handleSystemStateChange
InitBoot ==
    /\ ChannelInit
    /\ looppc = "dial"
    /\ mixpc = "dead"
    /\ \E stateLeft \in PinLevels : \E stateRight \in PinLevels :
          currentSystemState = ReadDialState(stateLeft, stateRight)
    /\ previousSystemState = currentSystemState
    /\ audioSystemInitialized = FALSE
    /\ audioMixerTaskHandle = FALSE
    /\ i2sDriver = "none"
    /\ notes = [j \in Voices |-> Stopped]
    /\ hasSilentNote = TRUE
    /\ silentNote = Stopped
    /\ rawSum = 0
    /\ i2sLog = << >>
    /\ laserPin = "LOW"
    /\ pumpPin = "LOW"
    /\ mixerTasks = 0
    /\ bytes_written = 0
    /\ NotesLoaded
    /\ NoWebServer /\ NoPlayer

\* the one-channel view: the loop about to poll channel i, the mixer about to mix a frame
Init ==
    /\ ChannelInit
    /\ looppc = "poll"
    /\ mixpc = "frame"
    /\ AudioRunning(TRUE)
    /\ NotesLoaded
    /\ NoWebServer /\ NoPlayer

\* the view of all voices: the loop about to read the dial, the mixer task just created
InitHarp ==
    /\ ChannelInit
    /\ looppc = "dial"
    /\ mixpc = "gate"
    /\ \E silent \in BOOLEAN : AudioRunning(silent)
    /\ NotesLoaded
    /\ NoWebServer /\ NoPlayer

\* part_002 (lines 885-2030) in HARP_MODE after setup(): no background voice; the
\* load of a note may have failed with only a warning (as in lines 155-159 of
\* the first sketch of part_002), here the allocation or the read of notes[0],
\* which leaves the size set and the buffer NULL
InitScale ==
    /\ ChannelInit
    /\ looppc = "dial"
    /\ mixpc = "gate"
    /\ AudioRunning(FALSE)
    /\ \E failed \in {{}, {1}} :
          noteBuffer = [j \in Voices |-> IF j \in failed THEN "NULL" ELSE "loaded"]
    /\ noteSize = [j \in Voices |-> NoteSize]
    /\ NoLoader
    /\ fallback = FALSE
    /\ NoWebServer /\ NoPlayer

\* ---- time ----
Tick(d) ==
    /\ now + d <= MaxTime
    /\ UNCHANGED systemVars
    /\ now' = now + d
    /\ UNCHANGED <<sensorVars, looppc, voiceVars, mixerVars, sensorHist, mixHist, outFrames, outReads>>

\* ---- sensor loop ----
\* the mixer is between two frames or blocked in i2s_write
MixerQuiet == mixpc \in {"frame", "write"}

\* the debounce timer is not restarted on a flip
FlipTimeStale == lastChangeTime

\* line 194: lastChangeTime[i] = millis()
FlipTime == now

\* lines 190-196: read the ADC, compare, restart the debounce timer on a flip
LoopPoll ==
    /\ looppc = "poll"
    /\ UNCHANGED systemVars
    /\ \E photodiodeValue \in Readings :
          LET laserBroken == photodiodeValue < TRIGGER_THRESHOLD
          IN  /\ IF laserBroken # pendingStates
                    THEN /\ lastChangeTime' = FlipTime
                         /\ pendingStates' = laserBroken
                    ELSE UNCHANGED <<lastChangeTime, pendingStates>>
              /\ lastCmp' = laserBroken
              /\ IF laserBroken # lastCmp
                    THEN /\ runStart' = now
                         /\ flips' = Sat(flips)
                         /\ heldRun' = FALSE
                         /\ runEdges' = 0
                    ELSE UNCHANGED <<runStart, flips, heldRun, runEdges>>
    /\ looppc' = "check"
    /\ UNCHANGED <<now, previousStates, voiceVars, mixerVars, everHeld, edges, trigs,
                   lastEdgeTime, mixHist, outFrames, outReads>>

\* lines 198-201: commit the pending state once it is older than DEBOUNCE_DELAY
\* millis() compared without subtracting the time of the last flip
DebounceElapsedAbsolute == now > DEBOUNCE_DELAY

\* >= in place of >
DebounceElapsedGe == (now - lastChangeTime) >= DEBOUNCE_DELAY

\* line 198
DebounceElapsed == (now - lastChangeTime) > DEBOUNCE_DELAY

\* a note that is already playing is not restarted
LoopCheckNextIfIdle == IF pendingStates /\ ~isPlaying THEN "T1" ELSE "poll"

\* either edge triggers the note
LoopCheckNextAnyEdge == "T1"

\* line 201: if (pendingStates[i]) the trigger follows, else the next poll
LoopCheckNext == IF pendingStates THEN "T1" ELSE "poll"

\* the confirmed state is left as it was
ConfirmedStateStale == previousStates

\* line 200: previousStates[i] = pendingStates[i]
ConfirmedState == pendingStates

LoopCheck ==
    /\ looppc = "check"
    /\ UNCHANGED systemVars
    /\ everHeld' = (everHeld \/ (now - runStart) > DEBOUNCE_DELAY)
    /\ heldRun' = (heldRun \/ (now - runStart) > DEBOUNCE_DELAY)
    /\ IF DebounceElapsed /\ pendingStates # previousStates
          THEN /\ previousStates' = ConfirmedState
               /\ edges' = Sat(edges)
               /\ runEdges' = (IF runEdges >= 2 THEN 2 ELSE runEdges + 1)
               /\ lastEdgeTime' = now
               /\ looppc' = LoopCheckNext
               /\ cleanTrig' = (pendingStates /\ MixerQuiet)
               /\ firstAfterReset' = IF pendingStates THEN -2 ELSE firstAfterReset
          ELSE /\ looppc' = "poll"
               /\ UNCHANGED <<previousStates, edges, runEdges, lastEdgeTime, cleanTrig, firstAfterReset>>
    /\ UNCHANGED <<now, pendingStates, lastChangeTime, voiceVars, mixerVars,
                   lastCmp, runStart, flips, trigs, lastReadIdx, frameRead, retrig, resetFrom,
                   outFrames, outReads>>

\* the cursor is reset to offset 0 of the file, so the header is played as samples
TriggerPositionFileStart == WAV_HEADER_SIZE - WAV_HEADER_SIZE

\* line 203: notes[i].current_position = WAV_HEADER_SIZE
TriggerPosition == WAV_HEADER_SIZE

LoopTriggerReset ==
    /\ looppc = "T1"
    /\ UNCHANGED systemVars
    /\ current_position' = TriggerPosition
    /\ looppc' = "T2"
    /\ firstAfterReset' = -1
    /\ retrig' = IF ~isPlaying THEN "idle"
                  ELSE IF current_position >= NoteSize THEN "end"
                  ELSE IF current_position > WAV_HEADER_SIZE THEN "mid" ELSE "start"
    /\ resetFrom' = current_position
    /\ UNCHANGED <<now, sensorVars, isPlaying, mixerVars, sensorHist, lastReadIdx, frameRead,
                   cleanTrig, outFrames, outReads>>

\* line 204: notes[i].isPlaying = true
LoopTriggerPlay ==
    /\ looppc = "T2"
    /\ UNCHANGED systemVars
    /\ isPlaying' = TRUE
    /\ looppc' = "poll"
    /\ trigs' = Sat(trigs)
    /\ outFrames' = << >>
    /\ outReads' = << >>
    /\ UNCHANGED <<now, sensorVars, current_position, mixerVars, lastCmp, runStart, flips,
                   everHeld, heldRun, edges, lastEdgeTime, runEdges, mixHist>>

LoopStep == LoopPoll \/ LoopCheck \/ LoopTriggerReset \/ LoopTriggerPlay

\* ---- audioMixerTask ----
\* lines 433-434
Clamp(s) == IF s > 127 THEN 127 ELSE IF s < -128 THEN -128 ELSE s

\* the clamped value is not moved back to unsigned
I2sSampleSigned(s) == ((Clamp(s) % 256) * 256) % 65536

\* lines 436-437: (uint8_t)(mixed_sample + 128), then << 8 as uint16_t
I2sSample(s) == (((Clamp(s) + 128) % 256) * 256) % 65536

\* lines 432-441: clamp, store the frame on both channels, next frame or the write;
\* r is the index read for the frame, kept for the history only
EndFrame(s, r) ==
    /\ mixed_sample' = s
    /\ i2s_output_buffer' = i2s_output_buffer \o <<I2sSample(s), I2sSample(s)>>
    /\ mixI' = mixI + 1
    /\ mixpc' = IF mixI + 1 < BlockFrames THEN "frame" ELSE "write"
    /\ outFrames' = IF trigs >= 1 /\ Len(outFrames) < NoteLen + 2
                       THEN Append(outFrames, I2sSample(s)) ELSE outFrames
    /\ outReads' = IF trigs >= 1 /\ Len(outReads) < NoteLen + 2
                      THEN Append(outReads, r) ELSE outReads

\* a step of the mixer ends a trigger's claim to have run undisturbed
Disturb == cleanTrig' = (cleanTrig /\ looppc \notin {"T1", "T2"})

\* lines 391-392 and 421: mixed_sample = 0; if (notes[j].isPlaying)
MixFrame ==
    /\ mixpc = "frame"
    /\ UNCHANGED systemVars
    /\ IF isPlaying
          THEN /\ mixpc' = "chk"
               /\ mixed_sample' = 0
               /\ UNCHANGED <<mixI, i2s_output_buffer, outFrames, outReads>>
          ELSE EndFrame(0, -1)
    /\ frameRead' = -1
    /\ Disturb
    /\ UNCHANGED <<now, sensorVars, looppc, voiceVars, posReg, sensorHist,
                   lastReadIdx, firstAfterReset, retrig, resetFrom>>

\* <= in place of <
InBoundsOffByOne(pos) == pos <= NoteSize

\* line 422: if (notes[j].current_position < notes[j].size)
InBounds(pos) == pos < NoteSize

MixCheck ==
    /\ mixpc = "chk"
    /\ UNCHANGED systemVars
    /\ mixpc' = IF InBounds(current_position) THEN "rd" ELSE "deact"
    /\ Disturb
    /\ UNCHANGED <<now, sensorVars, looppc, voiceVars, mixI, mixed_sample, posReg,
                   i2s_output_buffer, sensorHist, lastReadIdx, frameRead, firstAfterReset, retrig,
                   resetFrom, outFrames, outReads>>

\* lines 423-424: sample8bit = notes[j].buffer[notes[j].current_position];
\* a read outside the buffer yields whatever the memory holds
MixRead ==
    /\ mixpc = "rd"
    /\ UNCHANGED systemVars
    /\ \E sample8bit \in (IF current_position < NoteSize
                             THEN {SampleAt(current_position)} ELSE {0, 255}) :
          mixed_sample' = mixed_sample + (sample8bit - 128)
    /\ lastReadIdx' = current_position
    /\ frameRead' = current_position
    /\ firstAfterReset' = IF firstAfterReset = -1 THEN current_position ELSE firstAfterReset
    /\ mixpc' = "ld"
    /\ Disturb
    /\ UNCHANGED <<now, sensorVars, looppc, voiceVars, mixI, posReg, i2s_output_buffer,
                   sensorHist, retrig, resetFrom, outFrames, outReads>>

\* line 425, notes[j].current_position++: the load
MixLoad ==
    /\ mixpc = "ld"
    /\ UNCHANGED systemVars
    /\ posReg' = current_position
    /\ mixpc' = "st"
    /\ Disturb
    /\ UNCHANGED <<now, sensorVars, looppc, voiceVars, mixI, mixed_sample, i2s_output_buffer,
                   sensorHist, lastReadIdx, frameRead, firstAfterReset, retrig, resetFrom, outFrames, outReads>>

\* the cursor advances by a two-byte sample
AdvanceTwoBytes(pos) == pos + 2

\* line 425: ++ on a byte offset
Advance(pos) == pos + 1

\* line 425, notes[j].current_position++: the store
MixStore ==
    /\ mixpc = "st"
    /\ UNCHANGED systemVars
    /\ current_position' = Advance(posReg)
    /\ EndFrame(mixed_sample, frameRead)
    /\ Disturb
    /\ UNCHANGED <<now, sensorVars, looppc, isPlaying, posReg, sensorHist,
                   lastReadIdx, frameRead, firstAfterReset, retrig, resetFrom>>

\* line 427: notes[j].isPlaying = false
MixDeactivate ==
    /\ mixpc = "deact"
    /\ UNCHANGED systemVars
    /\ isPlaying' = FALSE
    /\ EndFrame(mixed_sample, frameRead)
    /\ Disturb
    /\ UNCHANGED <<now, sensorVars, looppc, current_position, posReg, sensorHist,
                   lastReadIdx, frameRead, firstAfterReset, retrig, resetFrom>>

\* lines 443-444: i2s_write hands the block to the driver and the loop starts over
MixWrite ==
    /\ mixpc = "write"
    /\ UNCHANGED systemVars
    /\ i2s_output_buffer' = << >>
    /\ mixI' = 0
    /\ mixpc' = "frame"
    /\ Disturb
    /\ UNCHANGED <<now, sensorVars, looppc, voiceVars, mixed_sample, posReg, sensorHist,
                   lastReadIdx, frameRead, firstAfterReset, retrig, resetFrom, outFrames, outReads>>

MixerStep == MixFrame \/ MixCheck \/ MixRead \/ MixLoad \/ MixStore \/ MixDeactivate \/ MixWrite

\* ---- all voices: audioMixerTask ----
\* (int16_t) of an int
Int16(x) == LET m == x % 65536 IN IF m >= 32768 THEN m - 65536 ELSE m

\* the accumulator is clamped after every voice
AccumulateClamped(acc, sample8bit) == Clamp(acc + Int16(sample8bit - 128))

\* the accumulator is an int8_t
AccumulateInt8(acc, sample8bit) ==
    LET m == (acc + Int16(sample8bit - 128)) % 256 IN IF m >= 128 THEN m - 256 ELSE m

\* lines 411 and 424: mixed_sample += (int16_t)(sample8bit - 128), mixed_sample an int32_t
Accumulate(acc, sample8bit) == acc + Int16(sample8bit - 128)

\* lines 372-379
AnyNoteCurrentlyPlaying == \E i \in Voices : notes[i].isPlaying

\* lines 394-417: the background voice of one frame; any is anyMusicPlaying
MixSilent(sn, any) ==
    LET s1 == IF ~any /\ ~sn.isPlaying
                 THEN [isPlaying |-> TRUE, current_position |-> WAV_HEADER_SIZE]
                 ELSE IF any /\ sn.isPlaying THEN [sn EXCEPT !.isPlaying = FALSE] ELSE sn
    IN  IF s1.isPlaying
           THEN IF s1.current_position < SilentSize
                   THEN [silentNote |-> [s1 EXCEPT !.current_position = Advance(@)],
                         mixed |-> Accumulate(0, SilentBuffer(s1.current_position))]
                   ELSE [silentNote |-> [s1 EXCEPT !.current_position = WAV_HEADER_SIZE],
                         mixed |-> 0]
           ELSE [silentNote |-> s1, mixed |-> 0]

\* lines 420-430: the for loop over the musical voices, from voice j on
RECURSIVE MixNotes(_, _, _)
MixNotes(j, ns, acc) ==
    IF j > NUM_SENSORS THEN [notes |-> ns, mixed |-> acc]
    ELSE IF ns[j].isPlaying
       THEN IF InBounds(ns[j].current_position)
               THEN MixNotes(j + 1, [ns EXCEPT ![j].current_position = Advance(@)],
                             Accumulate(acc, Buffer(j, ns[j].current_position)))
               ELSE MixNotes(j + 1, [ns EXCEPT ![j].isPlaying = FALSE], acc)
       ELSE MixNotes(j + 1, ns, acc)

\* the driver call e joins the history
Logged(e) == IF Len(i2sLog) > 0 /\ i2sLog[Len(i2sLog)] = e THEN i2sLog ELSE Append(i2sLog, e)

\* the mode test is left out
GateOpenAlways == TRUE

\* the mode test is inverted
GateOpenInverted == currentSystemState # "FULL_SYSTEM"

\* line 386: currentSystemState != FULL_SYSTEM sends the task to vTaskDelay
GateOpen == currentSystemState = "FULL_SYSTEM"

\* lines 384-390: the top of while (true)
MixerGate ==
    /\ mixpc = "gate"
    /\ IF GateOpen THEN mixpc' = "silent" /\ mixI' = 0
                   ELSE mixpc' = "delay" /\ mixI' = mixI
    /\ UNCHANGED <<channelVars, looppc, mixed_sample, i2s_output_buffer, systemVars>>

\* lines 387-388: vTaskDelay(pdMS_TO_TICKS(10)); continue
MixerDelay ==
    /\ mixpc = "delay"
    /\ mixpc' = "gate"
    /\ UNCHANGED <<channelVars, looppc, mixI, mixed_sample, i2s_output_buffer, systemVars>>

\* lines 391-418: mixed_sample = 0 and the background voice
MixerSilent ==
    /\ mixpc = "silent"
    /\ IF hasSilentNote
          THEN LET r == MixSilent(silentNote, AnyNoteCurrentlyPlaying)
               IN  silentNote' = r.silentNote /\ mixed_sample' = r.mixed
          ELSE silentNote' = silentNote /\ mixed_sample' = 0
    /\ mixpc' = "voices"
    /\ UNCHANGED <<channelVars, looppc, mixI, i2s_output_buffer, currentSystemState,
                   previousSystemState, audioSystemInitialized, audioMixerTaskHandle,
                   i2sDriver, notes, hasSilentNote, fallback, webVars, playerVars, pinVars, mixerTasks, bytes_written, scaleVars, rawSum, i2sLog>>

\* lines 420-441: the musical voices, the clamp and the two words of the frame
MixerVoices ==
    /\ mixpc = "voices"
    /\ LET r == MixNotes(1, notes, mixed_sample)
       IN  /\ notes' = r.notes
           /\ rawSum' = r.mixed
           /\ mixed_sample' = Clamp(r.mixed)
           /\ i2s_output_buffer' = i2s_output_buffer \o <<I2sSample(r.mixed), I2sSample(r.mixed)>>
    /\ mixI' = mixI + 1
    /\ mixpc' = IF mixI + 1 < BlockFrames THEN "silent" ELSE "blockwrite"
    /\ UNCHANGED <<channelVars, looppc, currentSystemState, previousSystemState,
                   audioSystemInitialized, audioMixerTaskHandle, i2sDriver, silentNote,
                   hasSilentNote, fallback, webVars, playerVars, pinVars, mixerTasks, bytes_written, scaleVars, i2sLog>>

\* sizeof(i2s_output_buffer) in 16-bit words
BlockWords == 2 * BlockFrames

\* i2s_write with portMAX_DELAY returns when the driver has queued the whole block
WholeBlock == {BlockWords}

\* a sink that may return from a write having accepted any part of the block
AnyPart == 0..BlockWords

\* lines 443-444: bytes_written = 0 and one call of i2s_write, whose report is not
\* read; sink is the set of word counts the call may report
MixerWrite(sink) ==
    /\ mixpc = "blockwrite"
    /\ \E n \in sink : bytes_written' = n
    /\ i2s_output_buffer' = << >>
    /\ i2sLog' = Logged("write")
    /\ mixpc' = "gate"
    /\ UNCHANGED <<channelVars, looppc, mixI, mixed_sample, currentSystemState,
                   previousSystemState, audioSystemInitialized, audioMixerTaskHandle,
                   i2sDriver, notes, silentNote, hasSilentNote, fallback, webVars, playerVars, pinVars, mixerTasks, scaleVars, rawSum>>

MixerTask == MixerGate \/ MixerDelay \/ MixerSilent \/ MixerVoices \/ MixerWrite(WholeBlock)

\* ---- all voices: loop(), the dial, start and stop of the audio path ----
\* lines 240, 249 and 258: digitalWrite(CONSTANT_HIGH_PIN, ...) of the three cases
PumpPin(d) == IF d = "SYSTEM_OFF" THEN "LOW" ELSE "HIGH"

\* lines 241, 250 and 259: digitalWrite(LASER_CONTROL_PIN, ...) of the three cases
LaserPin(d) == IF d = "FULL_SYSTEM" THEN "HIGH" ELSE "LOW"

\* lines 179-184 and the dispatch of handleSystemStateChange (lines 237-272);
\* dial is the set of positions readDialState can return. The pins are those of
\* HarpSilent.ino (part_002 takes the laser pin of FOUNTAIN_MODE from the web switch).
LoopDial(dial) ==
    /\ looppc = "dial"
    /\ \E d \in dial :
          /\ currentSystemState' = d
          /\ IF d = previousSystemState
                THEN UNCHANGED pinVars
                ELSE pumpPin' = PumpPin(d) /\ laserPin' = LaserPin(d)
          /\ IF d = previousSystemState
                THEN looppc' = "sensors" /\ UNCHANGED previousSystemState
                ELSE IF d = "FULL_SYSTEM"
                        THEN IF audioSystemInitialized
                                THEN looppc' = "sensors" /\ previousSystemState' = d
                                ELSE looppc' = "initialize" /\ UNCHANGED previousSystemState
                        ELSE IF audioSystemInitialized
                                THEN looppc' = "shutdown" /\ UNCHANGED previousSystemState
                                ELSE looppc' = "sensors" /\ previousSystemState' = d
          /\ fallback' = (fallback /\ d = "FULL_SYSTEM")
    /\ UNCHANGED <<channelVars, mixerVars, audioSystemInitialized, audioMixerTaskHandle,
                   i2sDriver, notes, silentNote, hasSilentNote, webVars, playerVars, mixerTasks,
                   bytes_written, scaleVars, rawSum, i2sLog>>

\* lines 258-268 and 275-310: initializeAudioSystem, which may fail at the amplifier
\* or at the driver; initializeI2S ends with i2s_zero_dma_buffer (line 465). Only
\* HarpSilent.ino falls back to PUMP_ONLY when it fails (lines 264-267); part_002
\* (lines 1307-1313) stays in HARP_MODE without the audio path.
LoopInitialize ==
    /\ looppc = "initialize"
    /\ \E ok \in BOOLEAN :
          IF ok
             THEN /\ i2sDriver' = "running"
                  /\ i2sLog' = <<"install", "flush">>
                  /\ silentNote' = IF hasSilentNote
                                      THEN [isPlaying |-> TRUE, current_position |-> WAV_HEADER_SIZE]
                                      ELSE silentNote
                  /\ audioMixerTaskHandle' = TRUE
                  /\ mixpc' = IF audioMixerTaskHandle THEN mixpc ELSE "gate"
                  /\ mixerTasks' = IF audioMixerTaskHandle THEN mixerTasks ELSE mixerTasks + 1
                  /\ audioSystemInitialized' = TRUE
                  /\ previousSystemState' = currentSystemState
                  /\ UNCHANGED <<currentSystemState, pinVars, fallback>>
             ELSE /\ IF hasSilentNote
                        THEN /\ currentSystemState' = "PUMP_ONLY"
                             /\ previousSystemState' = "PUMP_ONLY"
                             /\ laserPin' = "LOW"
                             /\ fallback' = TRUE
                             /\ UNCHANGED pumpPin
                        ELSE /\ previousSystemState' = currentSystemState
                             /\ UNCHANGED <<currentSystemState, pinVars, fallback>>
                  /\ UNCHANGED <<i2sDriver, i2sLog, silentNote, audioMixerTaskHandle, mixpc,
                                 audioSystemInitialized, mixerTasks>>
    /\ looppc' = "sensors"
    /\ UNCHANGED <<channelVars, mixI, mixed_sample, i2s_output_buffer, notes, hasSilentNote,
                   webVars, playerVars, bytes_written, scaleVars, rawSum>>

\* line 343: silentNote.isPlaying = false (part_002 has no background voice and
\* the step changes nothing there)
ShutdownSilent ==
    /\ looppc = "shutdown"
    /\ silentNote' = [silentNote EXCEPT !.isPlaying = Stopped.isPlaying]
    /\ looppc' = "shutdown_cursor"
    /\ UNCHANGED <<channelVars, mixerVars, currentSystemState, previousSystemState,
                   audioSystemInitialized, audioMixerTaskHandle, i2sDriver, notes,
                   hasSilentNote, fallback, webVars, playerVars, pinVars, mixerTasks, bytes_written, scaleVars, rawSum, i2sLog>>

\* line 344: silentNote.current_position = 0
ShutdownSilentCursor ==
    /\ looppc = "shutdown_cursor"
    /\ silentNote' = [silentNote EXCEPT !.current_position = Stopped.current_position]
    /\ looppc' = "shutdown_notes"
    /\ UNCHANGED <<channelVars, mixerVars, currentSystemState, previousSystemState,
                   audioSystemInitialized, audioMixerTaskHandle, i2sDriver, notes,
                   hasSilentNote, fallback, webVars, playerVars, pinVars, mixerTasks, bytes_written, scaleVars, rawSum, i2sLog>>

\* lines 345-348: the loop that stops the musical notes
ShutdownNotes ==
    /\ looppc = "shutdown_notes"
    /\ notes' = [j \in Voices |-> Stopped]
    /\ looppc' = "shutdown_task"
    /\ UNCHANGED <<channelVars, mixerVars, currentSystemState, previousSystemState,
                   audioSystemInitialized, audioMixerTaskHandle, i2sDriver, silentNote,
                   hasSilentNote, fallback, webVars, playerVars, pinVars, mixerTasks, bytes_written, scaleVars, rawSum, i2sLog>>

\* the mixer task is left alive
ShutdownTaskSkipped ==
    /\ looppc = "shutdown_task"
    /\ looppc' = "shutdown_stop"
    /\ UNCHANGED <<channelVars, mixerVars, systemVars>>

\* lines 350-355: vTaskDelete ends the mixer wherever it is, and its locals with it
ShutdownTask ==
    /\ looppc = "shutdown_task"
    /\ IF audioMixerTaskHandle
          THEN /\ mixpc' = "dead" /\ audioMixerTaskHandle' = FALSE /\ i2sLog' = Logged("kill")
               /\ mixerTasks' = mixerTasks - 1
               /\ mixI' = 0 /\ mixed_sample' = 0 /\ i2s_output_buffer' = << >>
          ELSE UNCHANGED <<mixerVars, audioMixerTaskHandle, i2sLog, mixerTasks>>
    /\ looppc' = "shutdown_stop"
    /\ UNCHANGED <<channelVars, currentSystemState,
                   previousSystemState, audioSystemInitialized, i2sDriver, notes, silentNote,
                   hasSilentNote, fallback, webVars, playerVars, pinVars, bytes_written, scaleVars, rawSum>>

\* lines 358-359: i2s_stop
ShutdownStop ==
    /\ looppc = "shutdown_stop"
    /\ IF audioSystemInitialized
          THEN i2sDriver' = "stopped" /\ i2sLog' = Logged("stop")
          ELSE UNCHANGED <<i2sDriver, i2sLog>>
    /\ looppc' = "shutdown_uninstall"
    /\ UNCHANGED <<channelVars, mixerVars, currentSystemState, previousSystemState,
                   audioSystemInitialized, audioMixerTaskHandle, notes, silentNote,
                   hasSilentNote, fallback, webVars, playerVars, pinVars, mixerTasks, bytes_written, scaleVars, rawSum>>

\* lines 360-363 and 183: i2s_driver_uninstall, audioSystemInitialized = false,
\* and back in loop() previousSystemState = currentSystemState
ShutdownUninstall ==
    /\ looppc = "shutdown_uninstall"
    /\ IF audioSystemInitialized
          THEN i2sDriver' = "none" /\ i2sLog' = Logged("uninstall")
          ELSE UNCHANGED <<i2sDriver, i2sLog>>
    /\ audioSystemInitialized' = FALSE
    /\ previousSystemState' = currentSystemState
    /\ looppc' = "sensors"
    /\ UNCHANGED <<channelVars, mixerVars, currentSystemState, audioMixerTaskHandle, notes,
                   silentNote, hasSilentNote, fallback, webVars, playerVars, pinVars, mixerTasks, bytes_written, scaleVars, rawSum>>

\* the sensors are processed in every mode
SensorsEnabledAlways == TRUE

\* line 187: only process the laser sensors in FULL_SYSTEM mode
SensorsEnabled == currentSystemState = "FULL_SYSTEM" /\ audioSystemInitialized

\* lines 187-211: one pass over the sensors; broken is the set of channels for which
\* this pass confirms a beam-broken edge (lines 198-205), each triggering its note
LoopSensors(chords) ==
    /\ looppc = "sensors"
    /\ IF SensorsEnabled
          THEN \E broken \in chords :
                  notes' = [j \in Voices |->
                               IF j \in broken
                                  THEN [isPlaying |-> TRUE, current_position |-> TriggerPosition]
                                  ELSE notes[j]]
          ELSE UNCHANGED notes
    /\ looppc' = "dial"
    /\ UNCHANGED <<channelVars, mixerVars, currentSystemState, previousSystemState,
                   audioSystemInitialized, audioMixerTaskHandle, i2sDriver, silentNote,
                   hasSilentNote, fallback, webVars, playerVars, pinVars, mixerTasks, bytes_written, scaleVars, rawSum, i2sLog>>

\* lines 187-211 for the channel of notes[1], all its steps in one: the ADC read
\* and the flip (190-196), the debounce check and the commit (198-200), the
\* trigger (201-205); millis() is now
LoopPass ==
    /\ looppc = "sensors"
    /\ IF SensorsEnabled
          THEN \E photodiodeValue \in Readings :
                  LET laserBroken == photodiodeValue < TRIGGER_THRESHOLD
                      flipped == laserBroken # pendingStates
                      pending == IF flipped THEN laserBroken ELSE pendingStates
                      changed == IF flipped THEN now ELSE lastChangeTime
                      edge == (now - changed) > DEBOUNCE_DELAY /\ pending # previousStates
                  IN  /\ pendingStates' = pending
                      /\ lastChangeTime' = changed
                      /\ previousStates' = IF edge THEN pending ELSE previousStates
                      /\ notes' = IF edge /\ pending
                                     THEN [notes EXCEPT ![1] = [isPlaying |-> TRUE,
                                                                current_position |-> TriggerPosition]]
                                     ELSE notes
          ELSE UNCHANGED <<sensorVars, notes>>
    /\ looppc' = "dial"
    /\ UNCHANGED <<now, voiceVars, posReg, sensorHist, mixHist, outFrames, outReads, mixerVars,
                   currentSystemState, previousSystemState, audioSystemInitialized,
                   audioMixerTaskHandle, i2sDriver, silentNote, hasSilentNote, fallback, webVars, playerVars, pinVars,
                   mixerTasks, bytes_written, scaleVars, rawSum, i2sLog>>

\* ---- part_002 (lines 885-2030): the scale loader and the mixer on sized buffers ----
\* FOUNTAIN_MODE of part_002 is the middle dial position, PUMP_ONLY in HarpSilent.ino
FOUNTAIN_MODE == "PUMP_ONLY"

\* what the loader leaves alone
boardVars == <<currentSystemState, previousSystemState, audioSystemInitialized,
               audioMixerTaskHandle, i2sDriver, silentNote, hasSilentNote, fallback, webVars, playerVars, rawSum, i2sLog,
               pinVars, mixerTasks, bytes_written>>

\* what loadNoteToPsram can meet when it opens the file (lines 1959-1970)
OpenOutcomes == {"ok", "missing", "small"}

\* and when it allocates and reads (lines 1972-1985)
ReadOutcomes == {"ok", "nomem", "shortread"}

\* lines 1525-1552: a /loadscale request is served when the dial, read by the web
\* task itself (lines 1430-1431), is on FOUNTAIN_MODE and scaleLoadInProgress is
\* false; it creates one more loadScaleTask (tasks holds the task slots that may
\* be used, names the scales that may be asked for). The dial may stand anywhere
\* by the time loop() reads it next.
WebLoadScale(tasks, names) ==
    /\ ~scaleLoadInProgress
    /\ \E currentMode \in SystemStates : currentMode = FOUNTAIN_MODE
    /\ \E t \in tasks : \E name \in names :
          /\ loaderpc[t] = "none"
          /\ \A u \in tasks : u < t => loaderpc[u] # "none"
          /\ loaderpc' = [loaderpc EXCEPT ![t] = "check"]
          /\ scaleName' = [scaleName EXCEPT ![t] = name]
    /\ UNCHANGED <<channelVars, looppc, mixerVars, boardVars, notes, noteBuffer, noteSize,
                   loaderI, fault, scaleLoadInProgress, currentScaleName, scaleLoadStatus>>

\* lines 1152-1155: loadScale returns false if a load is in progress (and
\* loadScaleTask deletes itself, lines 1404-1408)
LoaderCheck(t) ==
    /\ loaderpc[t] = "check"
    /\ loaderpc' = [loaderpc EXCEPT ![t] = IF scaleLoadInProgress THEN "none" ELSE "set"]
    /\ UNCHANGED <<channelVars, looppc, mixerVars, boardVars, notes, noteBuffer, noteSize,
                   loaderI, fault, scaleName, scaleLoadInProgress, currentScaleName,
                   scaleLoadStatus>>

\* lines 1157-1163: scaleLoadInProgress = true and the first messages
LoaderSet(t) ==
    /\ loaderpc[t] = "set"
    /\ scaleLoadInProgress' = TRUE
    /\ scaleLoadStatus' = "scanning"
    /\ loaderpc' = [loaderpc EXCEPT ![t] = "find"]
    /\ UNCHANGED <<channelVars, looppc, mixerVars, boardVars, notes, noteBuffer, noteSize,
                   loaderI, fault, scaleName, currentScaleName>>

\* line 1170: what scaleLoadInProgress is set to when a file is missing
FlagLeftSet == TRUE

FlagAfterMissingFile == FALSE

\* lines 1163-1175: loadScale looks up the five files and gives up if one is missing
LoaderFind(t) ==
    /\ loaderpc[t] = "find"
    /\ \E found \in BOOLEAN :
          IF found
             THEN /\ loaderpc' = [loaderpc EXCEPT ![t] = "unload"]
                  /\ scaleLoadStatus' = "unloading"
                  /\ UNCHANGED scaleLoadInProgress
             ELSE /\ loaderpc' = [loaderpc EXCEPT ![t] = "none"]
                  /\ scaleLoadStatus' = "missing"
                  /\ scaleLoadInProgress' = FlagAfterMissingFile
    /\ UNCHANGED <<channelVars, looppc, mixerVars, boardVars, notes, noteBuffer, noteSize,
                   loaderI, fault, scaleName, currentScaleName>>

\* lines 1178-1180 and 1213-1230: unloadCurrentScale stops every note, frees its
\* buffer and clears its size
LoaderUnload(t) ==
    /\ loaderpc[t] = "unload"
    /\ notes' = [j \in Voices |-> Stopped]
    /\ noteBuffer' = [j \in Voices |-> "NULL"]
    /\ noteSize' = [j \in Voices |-> 0]
    /\ loaderpc' = [loaderpc EXCEPT ![t] = "open"]
    /\ loaderI' = [loaderI EXCEPT ![t] = 1]
    /\ scaleLoadStatus' = "loading"
    /\ UNCHANGED <<channelVars, looppc, mixerVars, boardVars, fault, scaleName,
                   scaleLoadInProgress, currentScaleName>>

\* lines 1185-1193, 1203-1210 and 1959-1970: loadNoteToPsram opens the file of
\* notes[i] and sets note.size; a failure ends the load
LoaderOpen(t) ==
    /\ loaderpc[t] = "open"
    /\ \E outcome \in OpenOutcomes :
          /\ noteSize' = IF outcome = "missing" THEN noteSize
                          ELSE [noteSize EXCEPT ![loaderI[t]] =
                                   IF outcome = "small" THEN WAV_HEADER_SIZE ELSE NoteSize]
          /\ loaderpc' = [loaderpc EXCEPT ![t] = IF outcome = "ok" THEN "read" ELSE "none"]
          /\ scaleLoadInProgress' = IF outcome = "ok" THEN scaleLoadInProgress ELSE FALSE
          /\ scaleLoadStatus' = IF outcome = "ok" THEN "loading" ELSE "failed"
    /\ UNCHANGED <<channelVars, looppc, mixerVars, boardVars, notes, noteBuffer, loaderI, fault,
                   scaleName, currentScaleName>>

\* lines 1972-1985 and 1190-1210: ps_malloc and file.read; after a failed
\* allocation or a short read note.buffer is NULL and the load ends; after the
\* fifth note currentScaleName is set (lines 1198-1201)
LoaderRead(t) ==
    /\ loaderpc[t] = "read"
    /\ \E outcome \in ReadOutcomes :
          /\ noteBuffer' = [noteBuffer EXCEPT ![loaderI[t]] =
                               IF outcome = "ok" THEN "loaded" ELSE "NULL"]
          /\ IF outcome = "ok" /\ loaderI[t] < NUM_SENSORS
                THEN /\ loaderpc' = [loaderpc EXCEPT ![t] = "open"]
                     /\ loaderI' = [loaderI EXCEPT ![t] = @ + 1]
                     /\ scaleLoadStatus' = "loading"
                     /\ UNCHANGED <<scaleLoadInProgress, currentScaleName>>
                ELSE /\ loaderpc' = [loaderpc EXCEPT ![t] = "none"]
                     /\ loaderI' = loaderI
                     /\ scaleLoadInProgress' = FALSE
                     /\ currentScaleName' = IF outcome = "ok" THEN scaleName[t]
                                            ELSE currentScaleName
                     /\ scaleLoadStatus' = IF outcome = "ok" THEN "loaded" ELSE "failed"
    /\ UNCHANGED <<channelVars, looppc, mixerVars, boardVars, notes, noteSize, fault, scaleName>>

LoadScaleTask(t) ==
    \/ LoaderCheck(t) \/ LoaderSet(t) \/ LoaderFind(t) \/ LoaderUnload(t)
    \/ LoaderOpen(t) \/ LoaderRead(t)

\* lines 1906-1915: the loop over the voices with notes[j].size and notes[j].buffer
\* as they are; reading through a NULL buffer is undefined, garbage is the byte
\* such a read delivers if it delivers one
RECURSIVE MixNotesSized(_, _, _, _, _)
MixNotesSized(j, ns, acc, flt, garbage) ==
    IF j > NUM_SENSORS THEN [notes |-> ns, mixed |-> acc, fault |-> flt]
    ELSE IF ns[j].isPlaying
       THEN IF ns[j].current_position < noteSize[j]
               THEN MixNotesSized(j + 1, [ns EXCEPT ![j].current_position = Advance(@)],
                                  Accumulate(acc, IF noteBuffer[j] = "NULL" THEN garbage
                                                  ELSE Buffer(j, ns[j].current_position)),
                                  flt \/ noteBuffer[j] = "NULL", garbage)
               ELSE MixNotesSized(j + 1, [ns EXCEPT ![j].isPlaying = FALSE], acc, flt, garbage)
       ELSE MixNotesSized(j + 1, ns, acc, flt, garbage)

\* lines 1905-1924: one frame; a read through a NULL buffer either delivers some
\* byte or stops the processor with a load fault
MixerVoicesSized ==
    /\ mixpc = "voices"
    /\ \E garbage \in {0, 255} :
          LET r == MixNotesSized(1, notes, mixed_sample, FALSE, garbage)
          IN  \/ /\ notes' = r.notes
                 /\ rawSum' = r.mixed
                 /\ mixed_sample' = Clamp(r.mixed)
                 /\ i2s_output_buffer' =
                       i2s_output_buffer \o <<I2sSample(r.mixed), I2sSample(r.mixed)>>
                 /\ mixI' = mixI + 1
                 /\ mixpc' = IF mixI + 1 < BlockFrames THEN "silent" ELSE "blockwrite"
                 /\ fault' = (fault \/ r.fault)
                 /\ UNCHANGED <<looppc, loaderpc>>
              \/ /\ r.fault
                 /\ fault' = TRUE
                 /\ mixpc' = "panic" /\ looppc' = "panic"
                 /\ loaderpc' = [t \in LoaderTasks |-> "panic"]
                 /\ UNCHANGED <<notes, rawSum, mixed_sample, i2s_output_buffer, mixI>>
    /\ UNCHANGED <<channelVars, currentSystemState, previousSystemState,
                   audioSystemInitialized, audioMixerTaskHandle, i2sDriver, silentNote,
                   hasSilentNote, fallback, webVars, playerVars, i2sLog, pinVars, mixerTasks,
                   bytes_written, noteBuffer, noteSize, loaderI, scaleName,
                   scaleLoadInProgress, currentScaleName, scaleLoadStatus>>

\* ---- part_002 (lines 1-880): the web server task, the dial and the outputs ----
HARP_MODE == "FULL_SYSTEM"

\* the position the dial stands in (readDialState, lines 233-247)
DialPosition == ReadDialState(dialLeft, dialRight)

\* the largest long of the build, where newlib's atol stops
LONG_MAX == 2147483647

Digits == {"0", "1", "2", "3", "4", "5", "6", "7", "8", "9"}

DigitValue(c) ==
    CASE c = "0" -> 0 [] c = "1" -> 1 [] c = "2" -> 2 [] c = "3" -> 3 [] c = "4" -> 4
      [] c = "5" -> 5 [] c = "6" -> 6 [] c = "7" -> 7 [] c = "8" -> 8 [] c = "9" -> 9

\* the digits of text from position k on, read as atol reads them: it stops at
\* the first character that is no digit and at LONG_MAX
RECURSIVE ParseDigits(_, _, _)
ParseDigits(text, k, acc) ==
    IF k > Len(text) \/ text[k] \notin Digits THEN acc
    ELSE LET d == DigitValue(text[k])
         IN  ParseDigits(text, k + 1,
                         IF acc > (LONG_MAX - d) \div 10 THEN LONG_MAX ELSE acc * 10 + d)

\* String::toInt() (lines 466 and 483): an optional sign, then digits; 0 if there are none
ToInt(text) ==
    IF Len(text) > 0 /\ text[1] = "-" THEN 0 - ParseDigits(text, 2, 0)
    ELSE IF Len(text) > 0 /\ text[1] = "+" THEN ParseDigits(text, 2, 0)
    ELSE ParseDigits(text, 1, 0)

\* what may stand after "value=" in a /setthresh request
ThresholdTexts ==
    { <<"0">>, <<"-", "1">>, <<"1", "2", "x">>, <<"4", "0", "9", "5">>, <<"4", "0", "9", "6">>,
      <<"9", "9", "9", "9", "9", "9", "9", "9", "9", "9", "9">> }

\* and in a /setgain request
GainTexts ==
    { << >>, <<"-", "2", "8">>, <<"-", "2", "9">>, <<"3", "0">>, <<"3", "1">>,
      <<"-", "9", "9", "9", "9", "9", "9", "9", "9", "9", "9", "9">> }

NoRequest == [path |-> "", index |-> 0, value |-> << >>]

\* the requests told apart by the first line of the header: the switches, the
\* two sliders (the threshold of the last string stands for the five) and the page
Requests ==
    [path : {"pump_on", "pump_off", "laser_on", "laser_off", "page"}, index : {0}, value : {<< >>}]
    \cup [path : {"setgain"}, index : {0}, value : GainTexts]
    \cup [path : {"setthresh"}, index : {NUM_SENSORS - 1}, value : ThresholdTexts]

\* every value is stored
ThresholdAny(newThreshold) == TRUE

\* line 484: if (newThreshold >= 0 && newThreshold <= 4095)
ThresholdInRange(newThreshold) == newThreshold >= 0 /\ newThreshold <= 4095

\* line 467: if (newGain >= -28 && newGain <= 30)
GainInRange(newGain) == newGain >= -28 /\ newGain <= 30

\* shutdownAudioSystem (lines 718-742) as one step of handleSystemStateChange
AudioShutDown ==
    /\ audioSystemInitialized' = FALSE
    /\ audioMixerTaskHandle' = FALSE
    /\ mixpc' = "dead"
    /\ mixerTasks' = 0
    /\ i2sDriver' = "none"
    /\ i2sLog' = << >>
    /\ notes' = [j \in Voices |-> Stopped]
    /\ mixI' = 0 /\ mixed_sample' = 0 /\ i2s_output_buffer' = << >>

\* initializeAudioSystem (lines 659-689) as one step of handleSystemStateChange;
\* it may fail, and the sketch then stays in HARP_MODE without the audio path
AudioStarted(ok) ==
    /\ audioSystemInitialized' = ok
    /\ audioMixerTaskHandle' = ok
    /\ mixpc' = IF ok THEN "gate" ELSE "dead"
    /\ mixerTasks' = IF ok THEN 1 ELSE 0
    /\ i2sDriver' = IF ok THEN "running" ELSE "none"
    /\ i2sLog' = IF ok THEN <<"install", "flush">> ELSE << >>
    /\ UNCHANGED <<notes, mixI, mixed_sample, i2s_output_buffer>>

AudioUntouched ==
    UNCHANGED <<audioSystemInitialized, audioMixerTaskHandle, mixpc, mixerTasks, i2sDriver,
                i2sLog, notes, mixI, mixed_sample, i2s_output_buffer>>

\* handleSystemStateChange (lines 249-322) for the state d, the SD card present
HandleSystemStateChange(d) ==
    IF d = "SYSTEM_OFF"
       THEN /\ pumpPin' = "LOW" /\ laserPin' = "LOW"
            /\ IF audioSystemInitialized THEN AudioShutDown ELSE AudioUntouched
            /\ webPumpState' = FALSE /\ webLaserState' = FALSE
    ELSE IF d = FOUNTAIN_MODE
       THEN /\ pumpPin' = "HIGH"
            /\ webPumpState' = TRUE
            /\ laserPin' = IF webLaserState THEN "HIGH" ELSE "LOW"
            /\ IF audioSystemInitialized THEN AudioShutDown ELSE AudioUntouched
            /\ UNCHANGED webLaserState
    ELSE /\ pumpPin' = "HIGH" /\ laserPin' = "HIGH"
         /\ webPumpState' = TRUE /\ webLaserState' = TRUE
         /\ IF audioSystemInitialized THEN AudioUntouched
            ELSE \E ok \in BOOLEAN : AudioStarted(ok)

\* someone turns the dial
TurnDial ==
    /\ webpc # "none"
    /\ \E stateLeft \in PinLevels : \E stateRight \in PinLevels :
          /\ <<stateLeft, stateRight>> # <<dialLeft, dialRight>>
          /\ dialLeft' = stateLeft /\ dialRight' = stateRight
    /\ UNCHANGED <<channelVars, looppc, mixerVars, nonWebVars, webPumpState, webLaserState,
                   webGain, stringThresholds, webpc, controlsEnabled, header>>

\* lines 193-201: loop() reads the dial and handles a change
FountainLoop ==
    /\ looppc = "dial"
    /\ webpc # "none"
    /\ currentSystemState' = DialPosition
    /\ IF DialPosition # previousSystemState
          THEN HandleSystemStateChange(DialPosition)
          ELSE AudioUntouched /\ UNCHANGED <<pinVars, webPumpState, webLaserState>>
    /\ previousSystemState' = DialPosition
    /\ looppc' = "sensors"
    /\ UNCHANGED <<channelVars, silentNote, hasSilentNote, fallback, playerVars, rawSum,
                   bytes_written, scaleVars, dialLeft, dialRight, webGain, stringThresholds,
                   webpc, controlsEnabled, header>>

\* lines 380-388: a client is accepted and the dial read once for the connection
WebAccept ==
    /\ webpc = "accept"
    /\ controlsEnabled' = (DialPosition = FOUNTAIN_MODE)
    /\ webpc' = "request"
    /\ UNCHANGED <<channelVars, looppc, mixerVars, nonWebVars, dialLeft, dialRight,
                   webPumpState, webLaserState, webGain, stringThresholds, header>>

\* lines 390-396: the header arrives, however long the client takes to send it
WebRead ==
    /\ webpc = "request"
    /\ \E r \in Requests : header' = r
    /\ webpc' = "handle"
    /\ UNCHANGED <<channelVars, looppc, mixerVars, nonWebVars, dialLeft, dialRight,
                   webPumpState, webLaserState, webGain, stringThresholds, controlsEnabled>>

\* lines 440-490 and 649-650: the commands, then header = "" and client.stop()
WebHandle ==
    /\ webpc = "handle"
    /\ LET on == header.path \in {"pump_on", "laser_on"}
           newGain == ToInt(header.value)
           newThreshold == ToInt(header.value)
       IN  /\ IF controlsEnabled /\ header.path \in {"pump_on", "pump_off"}
                 THEN webPumpState' = on /\ pumpPin' = (IF on THEN "HIGH" ELSE "LOW")
                 ELSE UNCHANGED <<webPumpState, pumpPin>>
           /\ IF controlsEnabled /\ header.path \in {"laser_on", "laser_off"}
                 THEN webLaserState' = on /\ laserPin' = (IF on THEN "HIGH" ELSE "LOW")
                 ELSE UNCHANGED <<webLaserState, laserPin>>
           /\ IF controlsEnabled /\ header.path = "setgain" /\ GainInRange(newGain)
                 THEN webGain' = newGain
                 ELSE UNCHANGED webGain
           /\ IF controlsEnabled /\ header.path = "setthresh" /\ ThresholdInRange(newThreshold)
                 THEN stringThresholds' = [stringThresholds EXCEPT ![header.index] = newThreshold]
                 ELSE UNCHANGED stringThresholds
    /\ header' = NoRequest
    /\ webpc' = "accept"
    /\ UNCHANGED <<channelVars, looppc, mixerVars, currentSystemState, previousSystemState,
                   audioSystemInitialized, audioMixerTaskHandle, i2sDriver, notes, silentNote,
                   hasSilentNote, fallback, playerVars, rawSum, i2sLog, mixerTasks,
                   bytes_written, scaleVars, dialLeft, dialRight, controlsEnabled>>

WebServerTask == WebAccept \/ WebRead \/ WebHandle

\* the first sketch of part_002 after setup() (lines 114-191): the web server task
\* created, the dial read and handleSystemStateChange called once for what it
\* showed, with webLaserState still false
InitWeb ==
    /\ ChannelInit
    /\ looppc = "dial"
    /\ \E stateLeft \in PinLevels : \E stateRight \in PinLevels : \E ok \in BOOLEAN :
          LET d == ReadDialState(stateLeft, stateRight)
              started == (d = HARP_MODE /\ ok)
          IN  /\ dialLeft = stateLeft /\ dialRight = stateRight
              /\ currentSystemState = d /\ previousSystemState = d
              /\ pumpPin = (IF d = "SYSTEM_OFF" THEN "LOW" ELSE "HIGH")
              /\ laserPin = (IF d = HARP_MODE THEN "HIGH" ELSE "LOW")
              /\ webPumpState = (d # "SYSTEM_OFF")
              /\ webLaserState = (d = HARP_MODE)
              /\ audioSystemInitialized = started
              /\ audioMixerTaskHandle = started
              /\ mixpc = (IF started THEN "gate" ELSE "dead")
              /\ mixerTasks = (IF started THEN 1 ELSE 0)
              /\ i2sDriver = (IF started THEN "running" ELSE "none")
              /\ i2sLog = (IF started THEN <<"install", "flush">> ELSE << >>)
    /\ notes = [j \in Voices |-> Stopped]
    /\ hasSilentNote = FALSE
    /\ silentNote = Stopped
    /\ rawSum = 0
    /\ bytes_written = 0
    /\ NotesLoaded
    /\ NoPlayer
    /\ webGain = 0
    /\ stringThresholds = [i \in 0..(NUM_SENSORS - 1) |-> TRIGGER_THRESHOLD]
    /\ webpc = "accept"
    /\ controlsEnabled = FALSE
    /\ header = NoRequest

\* ---- part_000 and part_003: the note queue and the chunked player ----
\* bytes (part_000) or samples (part_003) of one chunk; 4096 bytes in the sketches
ChunkSize == 2

\* part_003, line 415: each 8-bit sample becomes 16 bit left and 16 bit right
STEREO_BYTES == 4

\* part_000, line 116: xQueueCreate(5, sizeof(int))
QUEUE_LENGTH == 5

\* the channels whose beams are broken
PlayerNotes == {1, 2}

\* the sink accepts any part of what i2s_write offers it
AnyBytes(bytes) == 0..bytes

\* part_000, line 190: audio_data_size = notes[noteIndex].size - WAV_HEADER_SIZE
AudioDataSize == NoteSize - WAV_HEADER_SIZE

\* how many bytes the sink is to receive for one note
StreamLength == IF converting THEN STEREO_BYTES * AudioDataSize ELSE AudioDataSize

\* the place in that stream of the source byte bytes_sent
StreamOffset == IF converting THEN STEREO_BYTES * bytes_sent ELSE bytes_sent

\* part_000, line 206: bytes_sent += bytes_written; part_003, line 422:
\* bytes_sent += (bytes_written / 4)
AdvanceSent(n) == IF converting THEN n \div STEREO_BYTES ELSE n

\* part_000 and part_003 after setup(): the notes loaded, the driver installed,
\* the queue empty, the player task created, the lasers on
InitPlayer ==
    /\ ChannelInit
    /\ looppc = "sensors"
    /\ mixpc = "dead"
    /\ currentSystemState = "FULL_SYSTEM"
    /\ previousSystemState = "FULL_SYSTEM"
    /\ audioSystemInitialized = TRUE
    /\ audioMixerTaskHandle = FALSE
    /\ i2sDriver = "running"
    /\ notes = [j \in Voices |-> Stopped]
    /\ hasSilentNote = FALSE
    /\ silentNote = Stopped
    /\ rawSum = 0
    /\ i2sLog = <<"install">>
    /\ laserPin = "HIGH"
    /\ pumpPin = "LOW"
    /\ mixerTasks = 0
    /\ bytes_written = 0
    /\ NotesLoaded
    /\ NoWebServer
    /\ noteQueue = << >> /\ sentWhilePlaying = << >>
    /\ playerpc = "receive"
    /\ noteIndexToPlay = 0
    /\ bytes_sent = 0 /\ bytes_to_write = 0
    /\ sunk = 0 /\ exact = TRUE
    /\ converting \in BOOLEAN

\* part_000, lines 143-155 (part_003, 344-354): loop() has confirmed a broken beam on channel i and
\* sends i to the queue without waiting; a full queue drops it
LoopQueueSend(i) ==
    /\ playerpc # "none"
    /\ Len(noteQueue) < QUEUE_LENGTH
    /\ noteQueue' = Append(noteQueue, i)
    /\ sentWhilePlaying' = Append(sentWhilePlaying, notes[i].isPlaying)
    /\ UNCHANGED <<channelVars, looppc, mixerVars, nonWebPlayerVars, playerpc,
                   noteIndexToPlay, bytes_sent, bytes_to_write, sunk, exact, converting>>

\* part_000, lines 164-175 and 181-191 (part_003, 363-387): the task takes the
\* next index from the queue and calls playNote unless the note is playing
PlayerReceive ==
    /\ playerpc = "receive"
    /\ noteQueue # << >>
    /\ noteIndexToPlay' = Head(noteQueue)
    /\ noteQueue' = Tail(noteQueue)
    /\ sentWhilePlaying' = Tail(sentWhilePlaying)
    /\ IF ~notes[Head(noteQueue)].isPlaying
          THEN /\ notes' = [notes EXCEPT ![Head(noteQueue)].isPlaying = TRUE]
               /\ bytes_sent' = 0
               /\ sunk' = 0 /\ exact' = TRUE
               /\ playerpc' = "chunk"
          ELSE /\ playerpc' = "receive"
               /\ UNCHANGED <<notes, bytes_sent, sunk, exact>>
    /\ UNCHANGED <<channelVars, looppc, mixerVars, boardVarsOfPlayer, bytes_written,
                   bytes_to_write, converting>>

\* part_000, lines 194-199; part_003, lines 392-399 and 415: the loop test and
\* the size of the next chunk
PlayerChunk ==
    /\ playerpc = "chunk"
    /\ IF bytes_sent < AudioDataSize
          THEN LET rest == AudioDataSize - bytes_sent
                   count == IF rest > ChunkSize THEN ChunkSize ELSE rest
               IN  /\ bytes_to_write' = IF converting THEN count * STEREO_BYTES ELSE count
                   /\ playerpc' = "write"
          ELSE /\ playerpc' = "zero"
               /\ UNCHANGED bytes_to_write
    /\ UNCHANGED <<channelVars, looppc, mixerVars, nonWebPlayerVars, noteQueue,
                   sentWhilePlaying, noteIndexToPlay, bytes_sent, sunk, exact, converting>>

\* part_000, lines 201-211; part_003, lines 416-426: i2s_write and what the
\* task makes of bytes_written
PlayerWrite ==
    /\ playerpc = "write"
    /\ \E n \in AnyBytes(bytes_to_write) :
          /\ bytes_written' = n
          /\ IF n > 0
                THEN bytes_sent' = bytes_sent + AdvanceSent(n) /\ playerpc' = "chunk"
                ELSE bytes_sent' = bytes_sent /\ playerpc' = "zero"
          /\ exact' = (exact /\ (n = 0 \/ StreamOffset = sunk))
          /\ sunk' = IF exact /\ StreamOffset = sunk THEN sunk + n ELSE sunk
    /\ UNCHANGED <<channelVars, looppc, mixerVars, boardVarsOfPlayer, notes, noteQueue,
                   sentWhilePlaying, noteIndexToPlay, bytes_to_write, converting>>

\* part_000, lines 214-218 (part_003, 429-432): i2s_zero_dma_buffer and isPlaying = false
PlayerZero ==
    /\ playerpc = "zero"
    /\ notes' = [notes EXCEPT ![noteIndexToPlay].isPlaying = FALSE]
    /\ playerpc' = "receive"
    /\ UNCHANGED <<channelVars, looppc, mixerVars, boardVarsOfPlayer, bytes_written,
                   noteQueue, sentWhilePlaying, noteIndexToPlay, bytes_sent, bytes_to_write,
                   sunk, exact, converting>>

AudioPlayerTask == PlayerReceive \/ PlayerChunk \/ PlayerWrite \/ PlayerZero

Shutdown ==
    \/ ShutdownSilent \/ ShutdownSilentCursor \/ ShutdownNotes
    \/ ShutdownTask \/ ShutdownStop \/ ShutdownUninstall

\* ---- specifications ----
\* sensor loop and mixer; millis() seen in steps of one debounce window
Next == LoopStep \/ MixerStep \/ Tick(DEBOUNCE_DELAY + 1)

Spec == Init /\ [][Next]_vars

\* the sensor loop alone (the mixer blocked in i2s_write), millis() in steps of 1
NextSensor == LoopStep \/ Tick(1)

SpecSensor == Init /\ [][NextSensor]_vars

\* loop() is called again and again and millis() advances
SpecSensorFair == SpecSensor /\ WF_vars(LoopStep) /\ WF_vars(Tick(1))

\* the mixer over all voices with the dial left on FULL_SYSTEM; any beams may break
NextMix ==
    \/ MixerGate \/ MixerSilent \/ MixerVoices \/ MixerWrite(WholeBlock)
    \/ LoopDial({"FULL_SYSTEM"}) \/ LoopSensors(Chords)

SpecMix == InitHarp /\ [][NextMix]_vars

\* the same with one beam broken alone or all beams at once. The mixer task is
\* pinned to core 1 at priority 5 (lines 301-305) and the sink returns from every
\* write, so the mixer always takes its next step.
NextBlocks ==
    \/ MixerGate \/ MixerSilent \/ MixerVoices \/ MixerWrite(WholeBlock)
    \/ LoopDial({"FULL_SYSTEM"}) \/ LoopSensors({{}, {1}, Voices})

SpecMixFair ==
    /\ InitHarp /\ [][NextBlocks]_vars
    /\ WF_vars(MixerGate \/ MixerSilent \/ MixerVoices \/ MixerWrite(WholeBlock))

\* the mixer in front of a sink that may accept any part of a block; one beam
NextSink ==
    \/ MixerGate \/ MixerSilent \/ MixerVoices \/ MixerWrite(AnyPart)
    \/ LoopDial({"FULL_SYSTEM"}) \/ LoopSensors({{}, {1}})

SpecSink == InitHarp /\ [][NextSink]_vars

\* HarpSilent.ino from power-up: the dial pins at any levels, one channel
\* debounced, millis() seen in steps of one debounce window
NextHarp ==
    \/ \E stateLeft \in PinLevels : \E stateRight \in PinLevels :
          LoopDial({ReadDialState(stateLeft, stateRight)})
    \/ LoopInitialize \/ Shutdown \/ LoopPass
    \/ Tick(DEBOUNCE_DELAY + 1)
    \/ MixerTask

SpecHarp == InitBoot /\ [][NextHarp]_vars

\* part_002 with the scale loader: the dial turned at will, the scale reloaded on
\* request by one loader task at a time, one beam
NextScale ==
    \/ LoopDial(SystemStates) \/ LoopInitialize \/ Shutdown \/ LoopSensors({{}, {1}})
    \/ MixerGate \/ MixerDelay \/ MixerSilent \/ MixerVoicesSized \/ MixerWrite(WholeBlock)
    \/ WebLoadScale({1}, {"CMajor"}) \/ LoadScaleTask(1)

SpecScale == InitScale /\ [][NextScale]_vars

\* the dial turned at will, the audio path started and shut down, the mixer task
NextSystem ==
    \/ LoopDial(SystemStates) \/ LoopInitialize \/ Shutdown \/ LoopSensors(SUBSET (1..MaxBeam))
    \/ MixerTask

SpecSystem == InitHarp /\ [][NextSystem]_vars

\* part_002 (lines 885-2030) standing in FOUNTAIN_MODE, where the web controls
\* are enabled: the audio path shut down, the notes of setup() loaded
InitLoader ==
    /\ ChannelInit
    /\ looppc = "dial"
    /\ mixpc = "dead"
    /\ currentSystemState = FOUNTAIN_MODE
    /\ previousSystemState = FOUNTAIN_MODE
    /\ audioSystemInitialized = FALSE
    /\ audioMixerTaskHandle = FALSE
    /\ i2sDriver = "none"
    /\ notes = [j \in Voices |-> Stopped]
    /\ hasSilentNote = FALSE
    /\ silentNote = Stopped
    /\ rawSum = 0
    /\ i2sLog = << >>
    /\ laserPin = "LOW"
    /\ pumpPin = "HIGH"
    /\ mixerTasks = 0
    /\ bytes_written = 0
    /\ NotesLoaded
    /\ NoWebServer /\ NoPlayer

\* the web server serving /loadscale requests and the loader tasks it creates
NextLoader ==
    \/ WebLoadScale(LoaderTasks, ScaleNames)
    \/ \E t \in LoaderTasks : LoadScaleTask(t)

SpecLoader == InitLoader /\ [][NextLoader]_vars


\* the first sketch of part_002: the dial turned at will, loop() and the web
\* server task serving one client after the other; the mixer, which touches
\* neither the outputs nor the web state, is left out
NextWeb == TurnDial \/ FountainLoop \/ LoopSensors({{}, {1}}) \/ WebServerTask

SpecWeb == InitWeb /\ [][NextWeb]_vars

\* part_000 and part_003: beams broken at will on two channels, the player task
\* in front of a sink that may accept any part of a chunk
NextPlayer == (\E i \in PlayerNotes : LoopQueueSend(i)) \/ AudioPlayerTask

SpecPlayer == InitPlayer /\ [][NextPlayer]_vars

\* the same with one beam. The player task is pinned to core 1 at priority 5
\* (part_000, lines 123-124) and i2s_write returns, so the task always takes its
\* next step.
NextPlayerOne == LoopQueueSend(1) \/ AudioPlayerTask

SpecPlayerFair == InitPlayer /\ [][NextPlayerOne]_vars /\ WF_vars(AudioPlayerTask)

\* ---- properties ----

\* C1: the mixer never reads a sample at an index at or past the voice's size,
\* under every interleaving of the trigger's writes with the mixer's steps:
\* neither a read already made nor the read the mixer is about to make.
C1_NoReadPastBuffer ==
    /\ lastReadIdx < NoteSize
    /\ (mixpc = "rd" => current_position < NoteSize)

\* the mixer has read the last sample of the note while a trigger is between its two writes
C1_Witness == lastReadIdx = NoteSize - 1 /\ looppc = "T2" /\ mixpc = "rd"

C4_TriggerRestarts ==
    (cleanTrig /\ looppc \notin {"T1", "T2"}) =>
        /\ firstAfterReset # -2
        /\ firstAfterReset = -1 => (current_position = WAV_HEADER_SIZE /\ isPlaying)
        /\ firstAfterReset >= 0 => firstAfterReset = WAV_HEADER_SIZE

\* a second trigger found the voice in the middle of its note and the mixer then read the first sample
C4_Witness ==
    /\ cleanTrig /\ looppc = "poll" /\ retrig = "mid"
    /\ firstAfterReset = WAV_HEADER_SIZE /\ trigs >= 2

\* C5: a trigger that arrives while the mixer handles the voice's finished note
\* (cursor = size) is not lost: once both writes are done the voice is active
\* until the mixer has read the new note, and what it reads first is the first sample.
C5_TriggerNotLost ==
    (retrig = "end" /\ looppc \notin {"T1", "T2"}) =>
        /\ firstAfterReset = -1 => isPlaying
        /\ firstAfterReset >= 0 => firstAfterReset = WAV_HEADER_SIZE

\* C6: a retrigger in the middle of a note survives the mixer's increment: the
\* reset is never overwritten with the old position plus one, and the first
\* sample the mixer reads after the reset is the first sample of the note.
C6_ResetSurvives ==
    retrig = "mid" =>
        /\ firstAfterReset = -1 => current_position # resetFrom + 1
        /\ firstAfterReset >= 0 => firstAfterReset = WAV_HEADER_SIZE

\* C7: a confirmed beam-restored edge changes neither cursor nor isPlaying and
\* starts no trigger; the loop writes a voice only after a beam-broken edge.
C7_RestoredEdgeNoEffect ==
    [][ /\ (previousStates /\ ~previousStates') =>
              (UNCHANGED voiceVars /\ looppc' = "poll")
        /\ looppc' \in {"T1", "T2"} => previousStates' ]_vars

\* the beam was restored and confirmed while the note is still sounding
C7_Witness ==
    /\ ~previousStates /\ edges >= 2 /\ looppc = "poll"
    /\ isPlaying /\ current_position > WAV_HEADER_SIZE /\ current_position < NoteSize

\* C8: while no polled comparison has been held for longer than DEBOUNCE_DELAY
\* the debouncer commits no state change and triggers no voice, however long
\* the comparisons keep flipping.
C8_NoEdgeWhileUnstable ==
    ~everHeld => (edges = 0 /\ trigs = 0 /\ ~previousStates /\ looppc \notin {"T1", "T2"})

\* the comparison has flipped again and again for more than two debounce windows
C8_Witness ==
    /\ ~everHeld /\ flips >= MaxCount /\ now > 2 * DEBOUNCE_DELAY
    /\ looppc = "poll" /\ edges = 0

\* C9: from the confirmed not-broken state, one crossing that stays: never more
\* than one confirmed edge and one trigger, the edge not before the value was
\* held for more than DEBOUNCE_DELAY, exactly one edge once a debounce check
\* has seen it held that long, and as the loop keeps polling the one edge and
\* the one trigger do come, wherever the polls fall.
C9_AtMostOnce ==
    (flips = 1 /\ lastCmp) =>
        /\ edges <= 1 /\ trigs <= edges
        /\ edges = 1 => (previousStates /\ lastEdgeTime - runStart > DEBOUNCE_DELAY)
        /\ heldRun => (edges = 1 /\ (trigs = 1 \/ looppc \in {"T1", "T2"}))

\* the crossing was polled early enough for millis() to pass the window
C9_Crossed == flips = 1 /\ lastCmp /\ runStart + DEBOUNCE_DELAY < MaxTime

C9_SingleCrossingOneEdge ==
    /\ []C9_AtMostOnce
    /\ C9_Crossed ~> (flips # 1 \/ (edges = 1 /\ trigs = 1))

\* the crossing was confirmed once and held for two further windows
C9_Witness ==
    /\ flips = 1 /\ lastCmp /\ edges = 1 /\ trigs = 1
    /\ now - lastEdgeTime > 2 * DEBOUNCE_DELAY /\ looppc = "poll"

\* C10: two successive changes of the confirmed state are more than
\* DEBOUNCE_DELAY apart, and pendingStates equals the latest polled comparison.
C10_ConfirmedChangesApart ==
    [][ /\ previousStates' # previousStates =>
              (lastEdgeTime = -1 \/ now' - lastEdgeTime > DEBOUNCE_DELAY)
        /\ pendingStates' = lastCmp' ]_vars

\* the confirmed state changed twice while the polled comparison flipped more often
C10_Witness == edges >= 2 /\ flips >= 3 /\ pendingStates # previousStates

\* C11: while the polled comparison stays what it is, the debouncer confirms at
\* most one further change of state, and once it has confirmed it the confirmed
\* state equals the comparison and no change follows, however long the loop runs.
C11_OneEdgePerRun ==
    /\ runEdges <= 1
    /\ runEdges = 1 => (previousStates = lastCmp /\ pendingStates = lastCmp)

\* after some flips the comparison stayed, its change was confirmed, and two windows later
\* no other change has followed
C11_Witness ==
    /\ runEdges = 1 /\ flips >= 2 /\ looppc = "poll"
    /\ now - lastEdgeTime > 2 * DEBOUNCE_DELAY

\* the word a frame holds when the voice alone contributes the byte at index k
FrameOf(k) == I2sSample(SampleAt(k) - 128)

\* the voice was triggered exactly once and no second trigger has begun to write
TriggeredOnce == trigs = 1 /\ looppc # "T2"

C16_FirstSampleWithinBlock ==
    (trigs >= 1 /\ looppc \notin {"T1", "T2"} /\ Len(outReads) >= BlockFrames) =>
        \/ firstAfterReset = WAV_HEADER_SIZE
        \/ \E k \in 1..BlockFrames : outReads[k] = WAV_HEADER_SIZE

\* ---- properties of the mixer over all voices ----
\* the voices that are active and in range
ActiveInRange == {j \in Voices : notes[j].isPlaying /\ notes[j].current_position < NoteSize}

\* the sum of the centred samples under the cursors of the voices in S
RECURSIVE CentredSum(_)
CentredSum(S) ==
    IF S = {} THEN 0
    ELSE LET j == CHOOSE x \in S : TRUE
         IN  (Buffer(j, notes[j].current_position) - 128) + CentredSum(S \ {j})

\* what the background voice adds to a frame: it is active exactly when no
\* musical voice is playing, from the start position if it was off
SilentPart ==
    IF hasSilentNote /\ ~AnyNoteCurrentlyPlaying
       THEN LET pos == IF silentNote.isPlaying THEN silentNote.current_position
                                               ELSE WAV_HEADER_SIZE
            IN  IF pos < SilentSize THEN SilentBuffer(pos) - 128 ELSE 0
       ELSE 0

\* clamp(x, -128, 127)
Clip(x) == IF x < -128 THEN -128 ELSE IF x > 127 THEN 127 ELSE x

\* the mixer takes the first or the second step of a frame
SilentStep == mixpc = "silent" /\ mixpc' = "voices"
VoicesStep == mixpc = "voices" /\ mixpc' \in {"silent", "blockwrite"}

\* C12: the mixed value of a frame is clamp(sum of (sample - 128) over the active
\* in-range voices, -128, 127) + 128, the clamp applied once to the total, and
\* the left and the right word of the frame are that value shifted left by 8.
C12_ClampOnceStereo ==
    [][ /\ SilentStep => mixed_sample' = SilentPart
        /\ VoicesStep =>
              LET total == mixed_sample + CentredSum(ActiveInRange)
                  word  == (Clip(total) + 128) * 256
              IN  /\ mixed_sample' = Clip(total)
                  /\ i2s_output_buffer' = i2s_output_buffer \o <<word, word>> ]_vars

\* voices 1 and 2 at +100 and voice 3 at -100 have just been mixed to +100
C12_Witness ==
    /\ rawSum = 100 /\ mixed_sample = 100 /\ mixpc \in {"silent", "blockwrite"}
    /\ \A j \in {1, 2, 3} : notes[j].isPlaying /\ notes[j].current_position = WAV_HEADER_SIZE + 2
    /\ ~notes[4].isPlaying /\ ~notes[5].isPlaying
    /\ i2s_output_buffer[Len(i2s_output_buffer)] = (100 + 128) * 256

\* C13: the accumulator holds the exact sum of the contributions, each in
\* -128..127, of the up to NUM_SENSORS musical voices and the background voice,
\* far inside the range of an int32_t, and every word written holds an
\* unsigned 8-bit value.
C13_NoOverflow ==
    /\ [](/\ rawSum >= -128 * (NUM_SENSORS + 1) /\ rawSum <= 127 * (NUM_SENSORS + 1)
          /\ 128 * (NUM_SENSORS + 1) < 2147483647
          /\ \A k \in 1..Len(i2s_output_buffer) :
                i2s_output_buffer[k] % 256 = 0 /\ i2s_output_buffer[k] \div 256 \in 0..255)
    /\ [][ VoicesStep =>
              /\ rawSum' = mixed_sample + CentredSum(ActiveInRange)
              /\ \A j \in ActiveInRange :
                    Buffer(j, notes[j].current_position) - 128 \in -128..127 ]_vars

\* the background voice and all musical voices were at full scale in one frame
C13_Witness ==
    /\ rawSum = 127 * (NUM_SENSORS + 1) /\ mixed_sample = 127
    /\ \A j \in Voices : notes[j].isPlaying
    /\ i2s_output_buffer[Len(i2s_output_buffer)] = 255 * 256

\* C14: a frame computed while no voice is active, musical or background, is
\* the silence code 128 << 8 on both channels, and so is every block of such frames.
C14_SilenceWhenIdle ==
    [][ (VoicesStep /\ ~AnyNoteCurrentlyPlaying /\ ~silentNote.isPlaying /\ mixed_sample = 0) =>
           i2s_output_buffer' = i2s_output_buffer \o <<128 * 256, 128 * 256>> ]_vars

\* a note has been played to its end and a whole block of silence is about to be written
C14_Witness ==
    /\ mixpc = "blockwrite" /\ ~AnyNoteCurrentlyPlaying /\ ~silentNote.isPlaying
    /\ notes[3].current_position = NoteSize
    /\ Len(i2s_output_buffer) = 2 * BlockFrames
    /\ \A k \in 1..Len(i2s_output_buffer) : i2s_output_buffer[k] = 128 * 256

\* C20: a voice the mixer finds active with its cursor at or past size is not
\* read and adds nothing, it is marked inactive with its cursor left alone, and
\* the other voices of the frame are mixed and advanced as usual.
C20_EndedVoiceSkipped ==
    [][ VoicesStep =>
           \A j \in Voices :
              (notes[j].isPlaying /\ notes[j].current_position >= NoteSize) =>
                 /\ notes'[j] = [isPlaying |-> FALSE, current_position |-> notes[j].current_position]
                 /\ rawSum' = mixed_sample + CentredSum(ActiveInRange)
                 /\ \A k \in ActiveInRange :
                       notes'[k] = [isPlaying |-> TRUE,
                                    current_position |-> notes[k].current_position + 1] ]_vars

\* voice 3 was found ended in the frame in which voices 1 and 2 gave their last sample
C20_Witness ==
    /\ ~notes[3].isPlaying /\ notes[3].current_position = NoteSize
    /\ notes[1].isPlaying /\ notes[1].current_position = NoteSize
    /\ notes[2].isPlaying /\ notes[2].current_position = NoteSize
    /\ rawSum = 2 * (Buffer(1, NoteSize - 1) - 128)
    /\ mixpc \in {"silent", "blockwrite"}

\* ---- properties of the dial and the audio path ----
\* a step of the mixer task (every step of the loop moves looppc)
MixerActs == mixpc' # mixpc /\ looppc' = looppc

\* C17 as stated: whenever currentSystemState is not FULL_SYSTEM the mixer
\* changes no voice, writes nothing to the sink and only idles.
C17_Original ==
    [][ (MixerActs /\ currentSystemState # "FULL_SYSTEM") =>
           /\ UNCHANGED <<notes, silentNote, i2sLog>>
           /\ mixpc' \in {"gate", "delay"} ]_vars

\* C17 amended: the mixer tests the flag once per block; when the test finds it
\* not FULL_SYSTEM the mixer changes no voice and writes nothing until it tests
\* again, and a block begins only from a test that found FULL_SYSTEM; a block
\* begun before the flag left FULL_SYSTEM is mixed and written to its end.
C17_GatePerBlock ==
    [][ MixerActs =>
           /\ (mixpc = "gate" /\ currentSystemState # "FULL_SYSTEM") =>
                 (mixpc' = "delay" /\ UNCHANGED <<notes, silentNote, i2sLog, i2s_output_buffer>>)
           /\ mixpc = "delay" =>
                 (mixpc' = "gate" /\ UNCHANGED <<notes, silentNote, i2sLog, i2s_output_buffer>>)
           /\ (mixpc' = "silent" /\ mixI' = 0) =>
                 (mixpc = "gate" /\ currentSystemState = "FULL_SYSTEM")
           /\ mixpc \in {"silent", "voices", "blockwrite"} =>
                 mixpc' \in {"silent", "voices", "blockwrite", "gate"} ]_vars

\* the dial has left FULL_SYSTEM, a note is still flagged as playing, the mixer idles
C17_Witness ==
    /\ mixpc = "delay" /\ currentSystemState # "FULL_SYSTEM"
    /\ notes[1].isPlaying /\ Len(i2sLog) > 2

\* C18: in every shutdown the device is stopped only after the mixer task has
\* been ended and, after that, the device's buffer has been flushed, and no
\* block is written after the flush.
C18_FlushBeforeStop ==
    \A p \in 1..Len(i2sLog) :
       i2sLog[p] = "stop" =>
          \E q \in 1..p : \E r \in 1..p :
             /\ q < r /\ r < p
             /\ i2sLog[q] = "kill" /\ i2sLog[r] = "flush"
             /\ \A w \in r..p : i2sLog[w] # "write"

\* isPlaying of voice j, or of the background voice, goes from false to true
Starts(j) == ~notes[j].isPlaying /\ notes'[j].isPlaying
Stops(j) == notes[j].isPlaying /\ ~notes'[j].isPlaying
SilentStarts == ~silentNote.isPlaying /\ silentNote'.isPlaying
SilentStops == silentNote.isPlaying /\ ~silentNote'.isPlaying

C21_BlockFullyAccepted ==
    [][ (mixpc = "blockwrite" /\ mixpc' = "gate") =>
           bytes_written' = Len(i2s_output_buffer) ]_vars

\* C22: with the dial on FULL_SYSTEM and a sink that accepts every block, each
\* iteration of the mixer hands one block of MIXER_BUFFER_SAMPLES frames to the
\* sink, and after every block another one follows, whatever the voices do.
C22_BlocksForever ==
    /\ [](mixpc = "blockwrite" => (mixI = BlockFrames /\ Len(i2s_output_buffer) = BlockWords))
    /\ [][ (mixpc = "gate" /\ mixpc' # "gate") =>
              (mixpc' = "silent" /\ mixI' = 0 /\ i2s_output_buffer = << >>) ]_vars
    /\ (mixpc = "gate") ~> (mixpc = "blockwrite")
    /\ (mixpc = "blockwrite") ~> (mixpc = "gate")

\* a block after the first is complete while one voice has ended and another plays
C22_Witness ==
    /\ mixpc = "blockwrite" /\ Len(i2s_output_buffer) = BlockWords
    /\ \E p \in 1..Len(i2sLog) : i2sLog[p] = "write"
    /\ \E j \in Voices : notes[j].isPlaying /\ notes[j].current_position < NoteSize
    /\ \E j \in Voices : ~notes[j].isPlaying /\ notes[j].current_position = NoteSize

\* the mixer has added the background voice's sample to the frame under way
SilentContributed ==
    /\ hasSilentNote /\ mixpc = "voices"
    /\ silentNote.isPlaying /\ silentNote.current_position > WAV_HEADER_SIZE

\* C25: in HarpSilent no output frame holds a sample of the background voice
\* together with a sample of a musical voice.
C25_BackgroundExclusive ==
    [][ VoicesStep => ~(SilentContributed /\ ActiveInRange # {}) ]_vars

\* the mixer task is inside a block
ProducingFrames == audioMixerTaskHandle /\ mixpc \in {"silent", "voices", "blockwrite"}

\* C26: in HarpSilent, a frame that starts with no musical voice playing has the
\* background voice playing; at the end of its data the background voice is not
\* deactivated but its cursor is set back to WAV_HEADER_SIZE; and while the mixer
\* produces frames and the background voice plays, its cursor stays within
\* WAV_HEADER_SIZE..size.
C26_BackgroundLoops ==
    /\ [][ (hasSilentNote /\ SilentStep /\ ~AnyNoteCurrentlyPlaying) =>
              /\ silentNote'.isPlaying
              /\ (silentNote.isPlaying /\ silentNote.current_position >= SilentSize) =>
                    silentNote'.current_position = WAV_HEADER_SIZE ]_vars
    /\ []((hasSilentNote /\ ProducingFrames /\ silentNote.isPlaying) =>
            (silentNote.current_position >= WAV_HEADER_SIZE
               /\ silentNote.current_position <= SilentSize))

\* C27: once shutdownAudioSystem has returned, every voice and the background
\* voice have isPlaying false and the cursor at 0.
C27_AllStoppedAfterShutdown ==
    (~audioSystemInitialized /\ looppc \in {"dial", "sensors"}) =>
        (silentNote = Stopped /\ \A j \in Voices : notes[j] = Stopped)

\* C29: at most one mixer task exists, and only while the I2S driver is installed
\* and running: a task is created only on an installed driver, the driver is
\* stopped and uninstalled only when no task is left, and every block is written
\* to an installed driver.
C29_OneTaskOnDriver ==
    /\ [](mixerTasks <= 1 /\ (mixerTasks >= 1 => i2sDriver = "running")
            /\ (mixpc # "dead" => i2sDriver = "running"))
    /\ [][ /\ mixerTasks' > mixerTasks => i2sDriver' = "running"
           /\ (i2sDriver = "running" /\ i2sDriver' # "running") => mixerTasks = 0
           /\ (mixpc = "blockwrite" /\ mixpc' = "gate") => i2sDriver = "running" ]_vars

\* the task created by a second initializeAudioSystem is about to write a block
\* (a block was written before the driver was installed again)
C29_Witness ==
    /\ mixerTasks = 1 /\ mixpc = "blockwrite" /\ i2sDriver = "running"
    /\ bytes_written = BlockWords
    /\ \A p \in 1..Len(i2sLog) : i2sLog[p] # "write"

\* the mode in which loop() processes the sensors
HarpActive == currentSystemState = "FULL_SYSTEM" /\ audioSystemInitialized

\* loop() finishes its pass over the sensors
SensorPass == looppc = "sensors" /\ looppc' = "dial"

\* C28: the pending and confirmed sensor states and the debounce timer change,
\* and a voice is triggered, only in a pass of loop() made with the mode on
\* FULL_SYSTEM and the audio system initialised; a pass made in any other state
\* leaves them all as they were.
C28_SensorsOnlyWhenActive ==
    [][ /\ sensorVars' # sensorVars => (SensorPass /\ HarpActive)
        /\ (\E j \in Voices : notes'[j].isPlaying /\ notes'[j] # notes[j] /\ mixpc' = mixpc) =>
              (SensorPass /\ HarpActive)
        /\ (SensorPass /\ ~HarpActive) => (sensorVars' = sensorVars /\ notes' = notes) ]_vars

\* a pass of loop() was made after a shutdown, with the beam still confirmed broken
C28_Witness ==
    /\ looppc = "dial" /\ ~audioSystemInitialized /\ currentSystemState # "FULL_SYSTEM"
    /\ Len(i2sLog) > 0 /\ i2sLog[Len(i2sLog)] = "uninstall"
    /\ pendingStates /\ previousStates /\ now > lastChangeTime + DEBOUNCE_DELAY

\* the outputs match the mode
OutputsMatchMode ==
    /\ (laserPin = "HIGH") <=> (currentSystemState = "FULL_SYSTEM")
    /\ (pumpPin = "HIGH") <=> (currentSystemState # "SYSTEM_OFF")
    /\ audioSystemInitialized => currentSystemState = "FULL_SYSTEM"

\* C30: in HarpSilent, at the end of every iteration of loop() the lasers are
\* on exactly in FULL_SYSTEM, the pump is on exactly when the state is not
\* SYSTEM_OFF, and the audio system is initialised only in FULL_SYSTEM.
C30_OutputsMatchMode ==
    [][ SensorPass => OutputsMatchMode' ]_vars

\* C23: whenever the mixer is about to process a triggered voice, the voice's
\* buffer is not NULL and its size is greater than WAV_HEADER_SIZE.
C23_TriggeredVoiceLoaded ==
    \A j \in Voices :
       (audioMixerTaskHandle /\ mixpc = "voices" /\ notes[j].isPlaying) =>
          (noteBuffer[j] = "loaded" /\ noteSize[j] > WAV_HEADER_SIZE)

\* C24: a buffer is freed or allocated, and a size changed, only while no mixer
\* task exists.
C24_SwapOnlyWhenQuiesced ==
    [][ (noteBuffer' # noteBuffer \/ noteSize' # noteSize) =>
           (~audioMixerTaskHandle /\ mixpc = "dead") ]_vars

\* C31: in HarpSilent.ino, once initialisation has failed on entering FULL_SYSTEM
\* and for as long as every dial read since returns FULL_SYSTEM, the lasers are
\* off and the pump is on, and between passes of loop() the mode is PUMP_ONLY.
C31_FallbackStays ==
    fallback =>
       /\ laserPin = "LOW" /\ pumpPin = "HIGH"
       /\ looppc = "sensors" => currentSystemState = "PUMP_ONLY"

\* the positions of loadScale after its test of scaleLoadInProgress found it false
PastCheck == {"set", "find", "unload", "open", "read"}

\* C34: at most one execution of loadScale is past its scaleLoadInProgress check
\* at any time, so no second execution unloads or loads a buffer meanwhile.
C34_OneLoadAtATime ==
    Cardinality({t \in LoaderTasks : loaderpc[t] \in PastCheck}) <= 1

\* a step in which an execution of loadScale returns because a file is missing
MissingFileReturn ==
    \E t \in LoaderTasks : loaderpc[t] = "find" /\ loaderpc'[t] = "none"

\* a step in which an execution of loadScale has its fifth file loaded
FifthFileLoaded ==
    \E t \in LoaderTasks :
       /\ loaderpc[t] = "read" /\ loaderI[t] = NUM_SENSORS
       /\ loaderpc'[t] = "none" /\ noteBuffer'[NUM_SENSORS] = "loaded"

\* C35: when loadScale finds a file missing it returns with every voice buffer,
\* size, cursor and isPlaying flag and currentScaleName unchanged and with
\* scaleLoadInProgress false; currentScaleName changes only in the step that
\* loads the fifth file.
C35_MissingFileChangesNothing ==
    /\ [][ MissingFileReturn =>
              /\ notes' = notes /\ noteBuffer' = noteBuffer /\ noteSize' = noteSize
              /\ currentScaleName' = currentScaleName
              /\ scaleLoadInProgress' = FALSE ]_vars
    /\ [][ currentScaleName' # currentScaleName => FifthFileLoaded ]_vars

\* a load of another scale has given up on a missing file and the scale of
\* setup() is still in place
C35_Witness ==
    /\ scaleLoadStatus = "missing"
    /\ \E t \in LoaderTasks : scaleName[t] = "Blues" /\ loaderpc[t] = "none"
    /\ \A j \in Voices : noteBuffer[j] = "loaded" /\ noteSize[j] = NoteSize
    /\ currentScaleName = "CMajor"
    /\ ~scaleLoadInProgress


\* the step in which the web server task applies the request it has read
WebApplies == webpc = "handle" /\ webpc' = "accept"

\* C32: a web command changes the web state or an output only if the dial stands
\* on FOUNTAIN_MODE when it is applied; once loop() has handled the dial position,
\* pump and lasers are on while the dial stands on HARP_MODE and off while it
\* stands on SYSTEM_OFF.
C32_ControlsOnlyInFountain ==
    /\ [][ (WebApplies /\ <<pinVars, webPumpState, webLaserState, webGain, stringThresholds>>'
                            # <<pinVars, webPumpState, webLaserState, webGain, stringThresholds>>)
              => DialPosition = FOUNTAIN_MODE ]_vars
    /\ [] ( (webpc # "none" /\ previousSystemState = DialPosition
                            /\ currentSystemState = DialPosition) =>
               /\ DialPosition = HARP_MODE => (pumpPin = "HIGH" /\ laserPin = "HIGH")
               /\ DialPosition = "SYSTEM_OFF" => (pumpPin = "LOW" /\ laserPin = "LOW") )

\* C33: the stored threshold of every string is within 0..4095 and the stored
\* gain within -28..30, and a request whose value lies outside the range leaves
\* the stored value as it was.
C33_StoredValuesInRange ==
    /\ [] ( /\ \A i \in 0..(NUM_SENSORS - 1) :
                 stringThresholds[i] >= 0 /\ stringThresholds[i] <= 4095
            /\ webGain >= -28 /\ webGain <= 30 )
    /\ [][ (WebApplies /\ header.path = "setthresh"
                       /\ (ToInt(header.value) < 0 \/ ToInt(header.value) > 4095))
              => stringThresholds' = stringThresholds ]_vars
    /\ [][ (WebApplies /\ header.path = "setgain"
                       /\ (ToInt(header.value) < -28 \/ ToInt(header.value) > 30))
              => webGain' = webGain ]_vars

\* both limits of both sliders have been stored, and a request with a value
\* beyond a limit is about to be applied with the controls enabled
C33_Witness ==
    /\ stringThresholds[NUM_SENSORS - 1] = 4095
    /\ webGain = -28
    /\ webpc = "handle" /\ controlsEnabled
    /\ header.path = "setthresh" /\ ToInt(header.value) = LONG_MAX


\* the step in which the player task starts playNote on the dequeued note
PlaybackStarts == playerpc = "receive" /\ playerpc' = "chunk"

\* C36: the player task starts no playback for a request that was queued while
\* its note was sounding, so edges confirmed during a note do not replay it.
C36_NoReplayOfQueuedRequests ==
    [][ PlaybackStarts => ~Head(sentWhilePlaying) ]_vars

\* C37: with a sink that accepts at least one byte of every write or none at
\* all, a note that is playing stops playing, and whenever the player task is
\* back at the queue no note is marked as playing.
C37_PlayNoteTerminates ==
    /\ \A j \in PlayerNotes : notes[j].isPlaying ~> ~notes[j].isPlaying
    /\ [] (playerpc = "receive" => \A j \in Voices : ~notes[j].isPlaying)

\* C38: every write of playNote begins at the first byte the sink has not yet
\* accepted, and when the loop ends without a failed write the sink has
\* received each byte of the note once.
C38_ResumesAtFirstUnaccepted ==
    /\ exact
    /\ (playerpc = "zero" /\ bytes_written > 0) => sunk = StreamLength


TypeOK ==
    /\ now \in 0..MaxTime
    /\ pendingStates \in BOOLEAN /\ previousStates \in BOOLEAN
    /\ lastChangeTime \in 0..MaxTime
    /\ looppc \in {"panic", "poll", "check", "T1", "T2", "dial", "initialize", "shutdown",
                   "shutdown_cursor", "shutdown_notes", "shutdown_task", "shutdown_stop", "shutdown_uninstall", "sensors"}
    /\ isPlaying \in BOOLEAN
    /\ current_position \in 0..(NoteSize + 1)
    /\ mixpc \in {"frame", "chk", "rd", "ld", "st", "deact", "write",
                  "gate", "delay", "silent", "voices", "blockwrite", "dead", "panic"}
    /\ mixI \in 0..BlockFrames
    /\ currentSystemState \in SystemStates /\ previousSystemState \in SystemStates
    /\ audioSystemInitialized \in BOOLEAN /\ audioMixerTaskHandle \in BOOLEAN
    /\ i2sDriver \in {"none", "running", "stopped"}
    /\ \A j \in Voices : notes[j].isPlaying \in BOOLEAN /\ notes[j].current_position \in 0..NoteSize
    /\ silentNote.isPlaying \in BOOLEAN /\ silentNote.current_position \in 0..SilentSize
    /\ (mixpc = "dead") = ~audioMixerTaskHandle
    /\ laserPin \in PinLevels /\ pumpPin \in PinLevels
    /\ mixerTasks \in 0..1
    /\ bytes_written \in 0..(BlockWords + STEREO_BYTES * ChunkSize)
    /\ noteQueue \in Seq(PlayerNotes) /\ Len(noteQueue) <= QUEUE_LENGTH
    /\ sentWhilePlaying \in Seq(BOOLEAN) /\ Len(sentWhilePlaying) = Len(noteQueue)
    /\ playerpc \in {"none", "receive", "chunk", "write", "zero"}
    /\ noteIndexToPlay \in 0..NUM_SENSORS
    /\ bytes_sent \in 0..AudioDataSize
    /\ bytes_to_write \in 0..(STEREO_BYTES * ChunkSize)
    /\ sunk \in 0..(StreamLength + STEREO_BYTES)
    /\ exact \in BOOLEAN /\ converting \in BOOLEAN
    /\ noteBuffer \in [Voices -> {"NULL", "loaded"}]
    /\ noteSize \in [Voices -> {0, WAV_HEADER_SIZE, NoteSize}]
    /\ loaderpc \in [LoaderTasks -> {"none", "check", "set", "find", "unload", "open", "read",
                                      "panic"}]
    /\ loaderI \in [LoaderTasks -> 0..NUM_SENSORS]
    /\ scaleName \in [LoaderTasks -> ScaleNames]
    /\ scaleLoadInProgress \in BOOLEAN
    /\ currentScaleName \in ScaleNames
    /\ scaleLoadStatus \in {"", "scanning", "missing", "unloading", "loading", "loaded", "failed"}
    /\ fallback \in BOOLEAN
    /\ dialLeft \in PinLevels /\ dialRight \in PinLevels
    /\ webPumpState \in BOOLEAN /\ webLaserState \in BOOLEAN
    /\ webpc \in {"none", "accept", "request", "handle"}
    /\ controlsEnabled \in BOOLEAN
    /\ header \in Requests \cup {NoRequest}
    /\ fault \in BOOLEAN
====
